---- MODULE Spec2Model ----
(***************************************************************************)
(* The dataset logging service of fly-vr (src/common/logger.py): producers *)
(* hold a DatasetLogger proxy that only enqueues events; one               *)
(* DatasetLogServer loop dequeues them and applies them to the HDF5 file   *)
(* and to its table of write positions.                                    *)
(***************************************************************************)
EXTENDS Integers, Sequences, FiniteSets, TLC

VARIABLES
    frame_queue,        \* the message queue between the proxies and the server
    server_state,       \* position of DatasetLogServer._thread_main
    file,               \* contents of the open HDF5 file: name -> dataset
    dataset_write_pos,  \* DatasetLogServer.dataset_write_pos: name -> int
    alive,              \* alive[p]: producer process p is still running
    host,               \* position of main()
    sent,               \* history: every message put on the queue, in put order
    delivered,          \* history: every message the server got, in get order
    storage,            \* the h5py.File handle: open, opens, closes, unflushed
    buffer,             \* buffer[p]: the events of producer p whose array p
                        \* has refilled while they were in the queue
    raised,             \* raised[t]: the exception that ended thread t, ""
                        \* while none has; thread 0 is the server
    io_task,            \* an IOTask: its data lock, its generator, the
                        \* positions of the sample callback and of a caller
                        \* of set_data_generator
    fictrac,            \* FicTracV2Driver.run: the locals of the polling
                        \* loop and the shared memory region it reads
    playlist            \* an AudioStimPlaylist and the generator that
                        \* data_generator has returned

vars == <<frame_queue, server_state, file, dataset_write_pos, alive, host,
          sent, delivered, storage, buffer, raised, io_task, fictrac, playlist>>

-----------------------------------------------------------------------------
(* Bounds and inputs *)

NumProducers == 2
MaxEvents == 3

Producers == 1..NumProducers

\* the server thread and the producer tasks
ServerThread == 0
Threads == {ServerThread} \cup Producers

\* every create call of the repository asks for two-dimensional datasets
\* with an unlimited leading dimension (maxshape=[None, w])
DatasetNames == {"/x"}
DatasetWidths == {2}
InitialLengths == {0, 2}
RowCounts == {1, 2}
\* a payload width no dataset has
WrongWidths == {3}

\* the empty mapping (an empty file, an empty dict of write positions)
Empty == [n \in {} |-> 0]

Put(f, k, v) == [n \in DOMAIN f \cup {k} |-> IF n = k THEN v ELSE f[n]]

RECURSIVE SumLen(_)
SumLen(s) == IF s = <<>> THEN 0 ELSE Len(Head(s)) + SumLen(Tail(s))

RECURSIVE Concat(_)
Concat(s) == IF s = <<>> THEN <<>> ELSE Head(s) \o Concat(Tail(s))

RECURSIVE SelectEvents(_, _)
SelectEvents(s, name) ==
    IF s = <<>> THEN <<>>
    ELSE IF Head(s).type # "None" /\ Head(s).dataset_name = name
         THEN <<Head(s)>> \o SelectEvents(Tail(s), name)
         ELSE SelectEvents(Tail(s), name)

RECURSIVE SelectSrc(_, _)
SelectSrc(s, p) ==
    IF s = <<>> THEN <<>>
    ELSE IF Head(s).src = p
         THEN <<Head(s)>> \o SelectSrc(Tail(s), p)
         ELSE SelectSrc(Tail(s), p)

IsPrefix(s, t) == Len(s) <= Len(t) /\ s = SubSeq(t, 1, Len(s))

-----------------------------------------------------------------------------
(* numpy arrays: a shape and the rows of cells *)

\* record number i of the k-th event of producer p: every cell of the row
\* carries it, so that each emitted row can be told from every other
Tag(p, k, i) == p * 100 + k * 10 + i

Row(w, v) == [j \in 1..w |-> v]

Array2D(p, k, n, w) ==
    [kind |-> "ndarray", shape |-> <<n, w>>,
     data |-> [i \in 1..n |-> Row(w, Tag(p, k, i))]]

Array1D(p, k, n) ==
    [kind |-> "ndarray", shape |-> <<n>>, data |-> Row(n, Tag(p, k, 1))]

\* mutant: an array of one dimension becomes a column
atleast_2d_Column(obj) ==
    IF Len(obj.shape) = 1
    THEN [kind |-> "ndarray", shape |-> <<obj.shape[1], 1>>,
          data |-> [i \in 1..obj.shape[1] |-> <<obj.data[i]>>]]
    ELSE obj

\* np.atleast_2d: an array of one dimension becomes one row
atleast_2d(obj) ==
    IF Len(obj.shape) = 1
    THEN [kind |-> "ndarray", shape |-> <<1, obj.shape[1]>>, data |-> <<obj.data>>]
    ELSE obj

-----------------------------------------------------------------------------
(* Events *)

DatasetCreateEvent(name, shape, maxshape, p, k) ==
    [type |-> "create", dataset_name |-> name, shape |-> shape,
     maxshape |-> maxshape, src |-> p, seq |-> k]

DatasetWriteEvent(name, obj, append, p, k) ==
    [type |-> "write", dataset_name |-> name,
     obj |-> IF obj.kind = "ndarray" THEN atleast_2d(obj) ELSE obj,
     append |-> append, src |-> p, seq |-> k]

\* an instance of the base class: it has a dataset name and no payload
DatasetLogEvent(name, p, k) ==
    [type |-> "event", dataset_name |-> name, src |-> p, seq |-> k]

\* an object that is no DatasetLogEvent, put on the queue as it is
OtherObject(p, k) == [type |-> "object", src |-> p, seq |-> k]

\* the shutdown signal
NoneMsg == [type |-> "None", src |-> 0, seq |-> 0]

\* isinstance(msg, DatasetLogEvent)
IsLogEvent(msg) == msg.type \in {"create", "write", "event"}

-----------------------------------------------------------------------------
(* The storage backend: what the server does with the h5py file object.    *)
(* A dataset is its shape, whether its leading dimension may be resized,   *)
(* and its rows; rows never written hold the fill value 0.                 *)

\* what processing a message leaves: the file, the write positions, whether
\* nothing was raised, and the exception otherwise
Result(f, wp, ok) ==
    [file |-> f, pos |-> wp, ok |-> ok,
     error |-> IF ok THEN "" ELSE "Exception"]

Raise(f, wp, error) == [file |-> f, pos |-> wp, ok |-> FALSE, error |-> error]

NewDataset(shape, maxshape) ==
    [shape |-> shape, resizable |-> (maxshape = "unlimited"),
     data |-> [i \in 1..shape[1] |-> Row(shape[2], 0)]]

\* mutant: create_dataset, which refuses a name that exists
require_dataset_CreateOnly(f, e) ==
    IF e.dataset_name \notin DOMAIN f
    THEN [file |-> Put(f, e.dataset_name, NewDataset(e.shape, e.maxshape)),
          ok |-> TRUE, error |-> ""]
    ELSE [file |-> f, ok |-> FALSE, error |-> "ValueError"]

\* h5py Group.require_dataset: open the dataset, creating it if it does not
\* exist; an existing dataset must have the requested shape (TypeError)
require_dataset(f, e) ==
    IF e.dataset_name \notin DOMAIN f
    THEN [file |-> Put(f, e.dataset_name, NewDataset(e.shape, e.maxshape)),
          ok |-> TRUE, error |-> ""]
    ELSE IF f[e.dataset_name].shape # e.shape
         THEN [file |-> f, ok |-> FALSE, error |-> "TypeError"]
         ELSE [file |-> f, ok |-> TRUE, error |-> ""]

\* mutant: a create gives the dataset the write position 0
ProcessCreate_WithCursor(e, f, wp) ==
    LET r == require_dataset(f, e)
    IN  IF r.ok
        THEN Result(r.file,
                    IF e.dataset_name \in DOMAIN wp THEN wp
                    ELSE Put(wp, e.dataset_name, 0), TRUE)
        ELSE Raise(r.file, wp, r.error)

\* DatasetCreateEvent.process
ProcessCreate(e, f, wp) ==
    LET r == require_dataset(f, e)
    IN  IF r.ok THEN Result(r.file, wp, TRUE) ELSE Raise(r.file, wp, r.error)

\* mutant: only the trailing dimension is compared
ShapeMatches_Width(dset, obj) == dset.shape[2] = obj.shape[2]

\* np.array_equal(dset.shape, self.obj.shape)
ShapeMatches(dset, obj) == dset.shape = obj.shape

\* dset[:] = self.obj
Overwrite(dset, obj) == [dset EXCEPT !.data = obj.data]

\* mutant: the write position is taken to be 0 on every append
LookupWritePos_Reset(wp, name) == Put(wp, name, 0)

\* the try/except around server.dataset_write_pos[self.dataset_name]
LookupWritePos(wp, name) == IF name \in DOMAIN wp THEN wp ELSE Put(wp, name, 0)

\* newsize = write_pos + self.obj.shape[0]
NewSize(write_pos, obj) == write_pos + obj.shape[1]

\* dset.resize(newsize, axis=0) is refused for a dataset that was not
\* created resizable (a scalar leaf is not)
CanResize(dset) == Len(dset.shape) = 2 /\ dset.resizable

\* what dset.resize raises when it is refused: a group has no such method
ResizeError(dset) ==
    IF "stored" \in DOMAIN dset /\ dset.stored = "group" THEN "AttributeError"
    ELSE "TypeError"

\* mutant: the dataset is resized only when it has to grow
Resize_GrowOnly(dset, newsize) ==
    IF newsize <= dset.shape[1] THEN dset
    ELSE [dset EXCEPT !.shape = <<newsize, dset.shape[2]>>,
                      !.data = [i \in 1..newsize |->
                                  IF i <= Len(dset.data) THEN dset.data[i]
                                  ELSE Row(dset.shape[2], 0)]]

\* dset.resize(newsize, axis=0): rows beyond newsize are dropped, new rows
\* hold the fill value
Resize(dset, newsize) ==
    [dset EXCEPT !.shape = <<newsize, dset.shape[2]>>,
                 !.data = [i \in 1..newsize |->
                             IF i <= Len(dset.data) THEN dset.data[i]
                             ELSE Row(dset.shape[2], 0)]]

\* dset[write_pos:, :] = self.obj needs the payload to have the shape of
\* the selected rows (widths 2 and 3 do not broadcast)
CanAssignFrom(dset, write_pos, obj) ==
    /\ obj.shape[2] = dset.shape[2]
    /\ obj.shape[1] = dset.shape[1] - write_pos

\* mutant: the payload is written to the first rows of the dataset
AssignFrom_Front(dset, write_pos, obj) ==
    [dset EXCEPT !.data = [i \in 1..Len(dset.data) |->
                             IF i <= Len(obj.data) THEN obj.data[i]
                             ELSE dset.data[i]]]

\* dset[write_pos:, :] = self.obj
AssignFrom(dset, write_pos, obj) ==
    [dset EXCEPT !.data = [i \in 1..Len(dset.data) |->
                             IF i > write_pos THEN obj.data[i - write_pos]
                             ELSE dset.data[i]]]

\* mutant: the write position counts events, not rows
StoreWritePos_PerEvent(wp, name, dset) == [wp EXCEPT ![name] = @ + 1]

\* mutant: the write position is the number of rows of the last payload
StoreWritePos_PayloadLen(wp, name, dset) ==
    [wp EXCEPT ![name] = dset.shape[1] - @]

\* mutant: the write position is left where it was
StoreWritePos_Stale(wp, name, dset) == wp

\* server.dataset_write_pos[self.dataset_name] = dset.shape[0]
StoreWritePos(wp, name, dset) == [wp EXCEPT ![name] = dset.shape[1]]

\* the append branch of DatasetWriteEvent.process
ProcessAppend(e, f, wp) ==
    LET name == e.dataset_name
        wp1 == LookupWritePos(wp, name)
        write_pos == wp1[name]
        newsize == NewSize(write_pos, e.obj)
    IN  IF ~CanResize(f[name])
        THEN Raise(f, wp1, ResizeError(f[name]))
        ELSE LET resized == Resize(f[name], newsize) IN
             IF ~CanAssignFrom(resized, write_pos, e.obj)
             THEN Raise(Put(f, name, resized), wp1, "TypeError")
             ELSE LET written == AssignFrom(resized, write_pos, e.obj) IN
                  Result(Put(f, name, written),
                         StoreWritePos(wp1, name, written), TRUE)

\* a group of the file: it has neither shape nor rows and cannot be resized
Group == [shape |-> <<>>, resizable |-> FALSE, data |-> <<>>, stored |-> "group"]

IsGroup(f, name) ==
    /\ name \in DOMAIN f
    /\ "stored" \in DOMAIN f[name]
    /\ f[name].stored = "group"

\* mutant: a dataset of the payload's width is created when the path has none
ProcessArrayWrite_AutoCreate(e, f, wp) ==
    LET g == IF e.dataset_name \in DOMAIN f /\ ~IsGroup(f, e.dataset_name) THEN f
             ELSE Put(f, e.dataset_name,
                      NewDataset(<<0, e.obj.shape[2]>>, "unlimited"))
    IN  IF e.append THEN ProcessAppend(e, g, wp)
        ELSE Result(g, wp, TRUE)

\* mutant: an overwrite goes to every dataset that has the payload's shape
ProcessArrayWrite_AllMatching(e, f, wp) ==
    IF e.dataset_name \notin DOMAIN f
    THEN Raise(f, wp, "KeyError")
    ELSE IF ~e.append
         THEN IF ~ShapeMatches(f[e.dataset_name], e.obj)
              THEN Raise(f, wp, "ValueError")
              ELSE Result([n \in DOMAIN f |->
                             IF ShapeMatches(f[n], e.obj)
                             THEN Overwrite(f[n], e.obj) ELSE f[n]],
                          wp, TRUE)
         ELSE ProcessAppend(e, f, wp)

\* mutant: an overwrite moves the write position to the end of the dataset
ProcessArrayWrite_OverwriteSetsCursor(e, f, wp) ==
    IF e.dataset_name \notin DOMAIN f
    THEN Raise(f, wp, "KeyError")
    ELSE IF ~e.append
         THEN IF ~ShapeMatches(f[e.dataset_name], e.obj)
              THEN Raise(f, wp, "ValueError")
              ELSE Result(Put(f, e.dataset_name,
                              Overwrite(f[e.dataset_name], e.obj)),
                          Put(wp, e.dataset_name, e.obj.shape[1]), TRUE)
         ELSE ProcessAppend(e, f, wp)

\* the ndarray branch of DatasetWriteEvent.process
ProcessArrayWrite(e, f, wp) ==
    IF e.dataset_name \notin DOMAIN f
    THEN Raise(f, wp, "KeyError")
    ELSE IF ~e.append
         THEN IF ~ShapeMatches(f[e.dataset_name], e.obj)
              THEN Raise(f, wp, "ValueError: Array cannot be logged to datset "
                                    \o "name {} because it has incompatible shape!")
              ELSE Result(Put(f, e.dataset_name,
                              Overwrite(f[e.dataset_name], e.obj)), wp, TRUE)
         ELSE ProcessAppend(e, f, wp)

\* A leaf written from a mapping: a scalar dataset holding the value as
\* encoded by the rule named in "stored"
Leaf(stored, val) ==
    [shape |-> <<>>, resizable |-> FALSE, data |-> <<Row(1, val)>>,
     stored |-> stored]

\* h5file[name] = value creates a new object; h5py refuses a name that is
\* already linked
SetItem(f, name, leaf) ==
    IF name \in DOMAIN f
    THEN [file |-> f, ok |-> FALSE, error |-> "ValueError: name already exists"]
    ELSE [file |-> Put(f, name, leaf), ok |-> TRUE, error |-> ""]

\* mutant: a value of a kind the chain has no branch for is written as is
Encoding_Lenient(item) ==
    CASE item.kind = "NoneType" -> "empty-string"
      [] item.kind = "bool" -> "int"
      [] item.kind = "list" -> "asarray"
      [] item.kind = "str" -> "utf8"
      [] OTHER -> "as-is"

\* the isinstance chain of recursively_save_dict_contents_to_group for one
\* value that is not a dict: the encoding rule, or "raise"
Encoding(item) ==
    CASE item.kind = "NoneType" -> "empty-string"
      [] item.kind = "bool" -> "int"
      [] item.kind = "list" -> "asarray"
      [] item.kind = "str" -> "utf8"
      [] item.kind \in {"ndarray", "int64", "float64", "bytes", "float"} -> "as-is"
      [] OTHER -> "raise"

\* an element of a list value: its kind and its literal
Elem(kind, v) == [kind |-> kind, v |-> v]

\* s.encode('utf8'): the bytes of the string
encode_utf8(v) == [kind |-> "bytes", v |-> v]

\* the loop that builds items_encoded: the strings of the list are
\* encoded, the other elements are taken as they are
items_encoded(val) ==
    [i \in DOMAIN val |->
        IF val[i].kind = "str" THEN encode_utf8(val[i].v) ELSE val[i]]

\* the value assigned to h5file[path + key] by the branch the item takes
EncodedValue(item) ==
    CASE item.kind = "NoneType" -> ""
      [] item.kind = "bool" -> IF item.val THEN 1 ELSE 0
      [] item.kind = "list" -> items_encoded(item.val)
      [] item.kind = "str" -> encode_utf8(item.val)
      [] OTHER -> item.val

\* raise ValueError('Cannot save %s type'%type(item))
CannotSave(item) == "ValueError: Cannot save " \o item.kind \o " type"

\* the paths of the model that end in '/': the names producers log
\* mappings under, and every path the recursion extends by key + '/'
SlashPaths == {"/deeper/test2/", "/P/", "/P/b/", "/Pb/"}

\* h5py links an object under a name by creating the groups on the way;
\* a path that ends in '/' names the group the object is put in
WithGroup(f, path) ==
    IF path \in SlashPaths /\ path \notin DOMAIN f THEN Put(f, path, Group) ELSE f

RECURSIVE recursively_save_dict_contents_to_group(_, _, _)
recursively_save_dict_contents_to_group(h5file, path, dic) ==
    IF dic = <<>> THEN [file |-> h5file, ok |-> TRUE, error |-> ""]
    ELSE LET item == Head(dic)
             r == IF item.kind = "dict"
                  THEN recursively_save_dict_contents_to_group(
                           h5file, path \o item.key \o "/", item.items)
                  ELSE IF Encoding(item) = "raise"
                       THEN [file |-> h5file, ok |-> FALSE,
                             error |-> CannotSave(item)]
                       ELSE SetItem(h5file, path \o item.key,
                                    Leaf(Encoding(item), EncodedValue(item)))
             linked == [file |-> IF r.file = h5file THEN h5file
                                 ELSE WithGroup(r.file, path),
                        ok |-> r.ok, error |-> r.error]
         IN  IF linked.ok
             THEN recursively_save_dict_contents_to_group(
                      linked.file, path, Tail(dic))
             ELSE linked

\* mutant: a mapping write that raises leaves the file as it found it
ProcessWrite_AtomicMapping(e, f, wp) ==
    IF e.obj.kind = "dict"
    THEN LET r == recursively_save_dict_contents_to_group(
                      f, e.dataset_name, e.obj.items)
         IN  IF r.ok THEN Result(r.file, wp, TRUE)
             ELSE Raise(f, wp, r.error)
    ELSE IF e.obj.kind = "ndarray"
         THEN ProcessArrayWrite(e, f, wp)
         ELSE Result(f, wp, TRUE)

\* DatasetWriteEvent.process; the flush at its end changes no contents
ProcessWrite(e, f, wp) ==
    IF e.obj.kind = "dict"
    THEN LET r == recursively_save_dict_contents_to_group(
                      f, e.dataset_name, e.obj.items)
         IN  IF r.ok THEN Result(r.file, wp, TRUE)
             ELSE Raise(r.file, wp, r.error)
    ELSE IF e.obj.kind = "ndarray"
         THEN ProcessArrayWrite(e, f, wp)
         ELSE Result(f, wp, TRUE)

\* msg.process(self); process of the base class raises
Process(msg, f, wp) ==
    IF msg.type = "create" THEN ProcessCreate(msg, f, wp)
    ELSE IF msg.type = "write" THEN ProcessWrite(msg, f, wp)
    ELSE Raise(f, wp, "TypeError")

\* mutant: a message that is no log event is skipped
Dispatch_SkipUnknown(msg, f, wp) ==
    IF IsLogEvent(msg) THEN Process(msg, f, wp) ELSE Result(f, wp, TRUE)

\* the branches of the loop of _thread_main for a message that is not None:
\* a log event is processed, anything else raises ValueError
Dispatch(msg, f, wp) ==
    IF IsLogEvent(msg) THEN Process(msg, f, wp)
    ELSE Raise(f, wp, "ValueError: Bad message sent to logging thread.")

\* mutant: only array writes are followed by a flush
FlushedBy_ArraysOnly(msg, ok) ==
    msg.type = "write" /\ ok /\ msg.obj.kind = "ndarray"

\* file_handle.flush() is the last statement of DatasetWriteEvent.process
\* and is reached when nothing raised; DatasetCreateEvent.process has none
FlushedBy(msg, ok) == msg.type = "write" /\ ok

\* the handle after one iteration of the loop: unflushed counts the create
\* and write events processed since the file was last flushed
AfterEvent(st, msg, ok) ==
    IF msg.type \notin {"create", "write"} THEN st
    ELSE [st EXCEPT !.unflushed = IF FlushedBy(msg, ok) THEN 0 ELSE @ + 1]

\* destroyed and forgotten count what the start of the server found and
\* dropped: the objects of the file at the path, the write positions
NotOpened ==
    [open |-> FALSE, opens |-> 0, closes |-> 0, unflushed |-> 0,
     destroyed |-> 0, forgotten |-> 0]

\* h5py.File(self.log_file_name, "w") on a path that holds the file prior
OpenFile(st, prior) ==
    [st EXCEPT !.open = TRUE, !.opens = @ + 1, !.unflushed = 0,
               !.destroyed = Cardinality(DOMAIN prior)]

\* self.dataset_write_pos = {} when the table was prior
ResetWritePos(st, prior) == [st EXCEPT !.forgotten = Cardinality(DOMAIN prior)]

\* mutant: the file is closed without the flush
FlushFile_Skipped(st) == st

\* self.file.flush()
FlushFile(st) == [st EXCEPT !.unflushed = 0]

\* self.file.close()
CloseFile(st) == [st EXCEPT !.open = FALSE, !.closes = @ + 1]

-----------------------------------------------------------------------------
(* The queue *)

\* mutant: a message is put at the front of the queue
QueuePut_Front(q, msg) == <<msg>> \o q

QueuePut(q, msg) == Append(q, msg)

\* the payload of a queued array write is the producer's array itself
Aliases(msg, p) ==
    /\ msg.type = "write"
    /\ msg.obj.kind = "ndarray"
    /\ "alias" \in DOMAIN msg.obj
    /\ msg.obj.alias = p

\* the array behind msg after its producer has read new samples into it
Refilled(msg) ==
    [msg EXCEPT !.obj.data =
        [i \in 1..msg.obj.shape[1] |-> Row(msg.obj.shape[2], Tag(msg.src, 0, i))]]

\* the events of producer p in queue q that carry an array
QueuedArrays(q, p) ==
    {q[i].seq : i \in {j \in DOMAIN q :
        q[j].type = "write" /\ q[j].src = p /\ q[j].obj.kind = "ndarray"}}

\* mutant: the queue holds a reference to the producer's array
Pickle_ByReference(msg) ==
    IF msg.type = "write" /\ msg.obj.kind = "ndarray"
    THEN [msg EXCEPT !.obj = [kind |-> "ndarray", shape |-> msg.obj.shape,
                              data |-> msg.obj.data, alias |-> msg.src]]
    ELSE msg

\* put serializes the message for the transfer to the server process: the
\* queue holds the value the message had at the call
Pickle(msg) == msg
\* mutant: the event is handed to the queue as it is, whatever it holds
Picklable_Deferred(msg) == TRUE

\* the queue serializes a message when it is put: an event that holds a
\* generator (as payload, or among the arguments of create) cannot be
Picklable(msg) ==
    CASE msg.type = "create" -> msg.maxshape # "generator"
      [] msg.type = "write" -> msg.obj.kind # "generator"
      [] OTHER -> TRUE

\* mutant: the queue holds one message, put waits while it is full
QueueHasRoom_Bounded(q) == Len(q) < 1

\* the queue has no capacity limit: put never waits for the server
QueueHasRoom(q) == TRUE

QueueFront(q) == Head(q)
QueueRest(q) == Tail(q)

NumEvents == Cardinality({i \in DOMAIN sent : sent[i].type # "None"})
NextSeq(p) == Len(SelectSrc(sent, p)) + 1

-----------------------------------------------------------------------------
(* Inputs of the producers *)

CreateInputs ==
    {<<name, <<l, w>>, "unlimited">> :
        name \in DatasetNames, l \in InitialLengths, w \in DatasetWidths}

Item(key, kind, val) == [key |-> key, kind |-> kind, val |-> val, items |-> <<>>]

\* test2_dataset of logger.py
test2_dataset ==
    [kind |-> "dict",
     items |-> <<Item("data1", "str", 1), Item("data2", "ndarray", 2)>>]

AppendInputs(p, k) ==
    {<<name, Array2D(p, k, n, w), TRUE>> :
        name \in DatasetNames, n \in RowCounts, w \in DatasetWidths}

OverwriteInputs(p, k) ==
    {<<name, Array2D(p, k, n, w), FALSE>> :
        name \in DatasetNames, n \in RowCounts, w \in DatasetWidths}

WrongWidthInputs(p, k) ==
    {<<name, Array2D(p, k, 1, w), TRUE>> :
        name \in DatasetNames, w \in WrongWidths}

\* a one-dimensional payload, as the callback of IOTask logs them
OneDimInputs(p, k) ==
    {<<name, Array1D(p, k, w), TRUE>> : name \in DatasetNames, w \in DatasetWidths}

MappingInputs == {<<"/deeper/test2/", test2_dataset, TRUE>>}

Nested(key, items) == [key |-> key, kind |-> "dict", val |-> 0, items |-> items]

\* {"a": 1, "b": {"c": "text", "d": [1, 2, 3]}}; a is a Python int
int_mapping ==
    [kind |-> "dict",
     items |-> <<Item("a", "int", 1),
                 Nested("b", <<Item("c", "str", "text"),
                               Item("d", "list", <<Elem("int", "1"), Elem("int", "2"),
                                                   Elem("int", "3")>>)>>)>>]

\* the same mapping with a == np.int64(1)
int64_mapping ==
    [kind |-> "dict",
     items |-> <<Item("a", "int64", 1),
                 Nested("b", <<Item("c", "str", "text"),
                               Item("d", "list", <<Elem("int", "1"), Elem("int", "2"),
                                                   Elem("int", "3")>>)>>)>>]

\* the names a mapping is logged under, with and without the final '/'
MappingPaths == {"/P/", "/P"}

\* one producer logs mappings, the other arrays: to the path a mapping was
\* logged under, and to a path nothing was created at
NestedLogInputs(p, k) ==
    IF p = 1
    THEN {<<path, m, TRUE>> :
             path \in MappingPaths, m \in {int_mapping, int64_mapping}}
    ELSE {<<name, Array2D(p, k, 1, w), append>> :
             name \in {"/P/", "/x"}, w \in DatasetWidths, append \in BOOLEAN}

OtherInputs == {<<"/x", [kind |-> "list"], TRUE>>}

\* the key of the mapping that event k of producer p logs
KeyOf(p, k) == "k" \o ToString(p) \o ToString(k)

\* one value of every kind the isinstance chain has a branch for
BranchValues(key) ==
    {Item(key, "NoneType", 0),
     Item(key, "bool", TRUE), Item(key, "bool", FALSE),
     Item(key, "str", "text"),
     Item(key, "list", <<Elem("str", "u"), Elem("str", "v")>>),
     Item(key, "list", <<Elem("int", "1"), Elem("float", "2.0")>>),
     Item(key, "int64", 1), Item(key, "float", 1), Item(key, "float64", 1),
     Item(key, "ndarray", 2), Item(key, "bytes", "raw")}

\* values of kinds the chain has no branch for
ElseValues(key) ==
    {Item(key, "int", 1), Item(key, "tuple", 0), Item(key, "set", 0)}

Mapping(items) == [kind |-> "dict", items |-> items]

\* one producer logs mappings of one value of any kind, the other also
\* mappings that hold a value below a nested mapping or behind another value
KindMappings(p, k) ==
    IF p = 1
    THEN {Mapping(<<it>>) : it \in BranchValues(KeyOf(p, k))}
    ELSE {Mapping(<<it>>) : it \in ElseValues(KeyOf(p, k))}
         \cup {Mapping(<<Nested("b", <<it>>)>>) :
                  it \in {Item(KeyOf(p, k), "str", "text"),
                          Item(KeyOf(p, k), "tuple", 0)}}
         \cup {Mapping(<<Nested("b", <<Item(KeyOf(p, k), "str", "text")>>),
                         Item(KeyOf(p, k), "tuple", 0),
                         Item(KeyOf(p, k) \o "z", "str", "text")>>)}
         \cup {Mapping(<<Item("a", "str", "text")>>),
               Mapping(<<Item("a", "str", "text"),
                         Item(KeyOf(p, k), "set", 0)>>)}

KindLogInputs(p, k) == {<<"/P/", m, TRUE>> : m \in KindMappings(p, k)}

\* any producer may create and log anything: appends, overwrites of the
\* shape a dataset is created with, mappings
LogInputs(p, k) ==
    AppendInputs(p, k)
    \cup {a \in OverwriteInputs(p, k) : a[2].shape[1] \in InitialLengths}
    \cup MappingInputs

\* the two tasks of main: log_event_worker creates a dataset and logs arrays
\* to it, log_event_worker2 logs objects that are not arrays
WorkerCreateInputs(p) == IF p = 1 THEN CreateInputs ELSE {}

WorkerLogInputs(p, k) ==
    IF p = 1
    THEN AppendInputs(p, k) \cup OverwriteInputs(p, k) \cup WrongWidthInputs(p, k)
             \cup OneDimInputs(p, k)
    ELSE MappingInputs \cup OtherInputs

\* what a holder of the queue can put on it besides create and write
\* events: an object of another class, an instance of the base class
ForeignMessages(p, k) == {OtherObject(p, k), DatasetLogEvent("/x", p, k)}

\* the samples of IOTask: every callback logs the array it reads into
BufferInputs(p, k) ==
    {<<name, Array2D(p, k, n, w), TRUE>> :
        name \in DatasetNames, n \in {1}, w \in DatasetWidths}
    \cup {<<name, Array2D(p, k, 1, w), FALSE>> :
        name \in DatasetNames, w \in DatasetWidths}

\* each producer has a dataset of its own, created with one row
ArrayNames(p) == IF p = 1 THEN {"/x"} ELSE {"/y"}

ArrayCreateInputs(p) ==
    {<<name, <<1, w>>, "unlimited">> :
        name \in ArrayNames(p), w \in DatasetWidths}

\* and logs to it arrays of one dimension and of two, appending or not
ArrayLogInputs(p, k) ==
    {<<name, obj, append>> :
        name \in ArrayNames(p),
        obj \in {Array1D(p, k, w) : w \in DatasetWidths}
                  \cup {Array2D(p, k, 2, w) : w \in DatasetWidths},
        append \in BOOLEAN}

ProtocolCreateInputs == {<<"/x", <<0, 2>>, "unlimited">>}

ProtocolLogInputs(p, k) == {<<"/x", Array2D(p, k, 1, 2), TRUE>>}

\* arguments the queue cannot serialize: a generator as payload of log, a
\* generator among the arguments of create
UnpicklableCreateInputs == {<<"/x", <<0, 2>>, "generator">>}

UnpicklableLogInputs == {<<"/x", [kind |-> "generator"], TRUE>>}

-----------------------------------------------------------------------------
(* The tasks that log: an IOTask, the FicTrac driver, a playlist *)

\* the sample chunk number n of generator g: one row of one channel
SampleChunk(g, n) == [producer_id |-> g, data |-> Array2D(g, n, 1, 1)]

\* the samples that read number n of the hardware has put into array a
Samples(a, n) ==
    [a EXCEPT !.data = [i \in 1..a.shape[1] |-> Row(a.shape[2], Tag(0, n, i))]]

\* np.zeros((num_samples_per_chan, num_channels))
Zeros == [kind |-> "ndarray", shape |-> <<1, 1>>, data |-> <<Row(1, 0)>>]

\* no IOTask is constructed
NoTask ==
    [cha_type |-> "", data_lock |-> "", data_gen |-> 0, chunked_gen |-> 0,
     sample_chunk |-> [producer_id |-> 0, data |-> Zeros], data |-> Zeros,
     yielded |-> <<>>, callback |-> "idle", setter |-> "idle",
     callbacks |-> 0, reads |-> 0, written |-> <<>>, samples_written |-> 0]

\* FicTracV2Driver before run has reached its loop: the shared memory
\* region holds the frame counter that the FicTrac process writes
NoDriver ==
    [state |-> "init", frame_cnt |-> 0, process |-> "running",
     first_frame_count |-> 0, old_frame_count |-> 0, new_frame_count |-> 0,
     running |-> TRUE, is_stopped |-> FALSE, ready |-> FALSE,
     observed |-> <<>>]

\* what a generator yields when it has no data
NoneChunk == [kind |-> "None"]

\* no AudioStimPlaylist is constructed
NoPlaylist ==
    [state |-> "init", paused |-> FALSE, order |-> <<>>, taken |-> 0,
     chunks |-> <<>>, yielded |-> NoneChunk, steps |-> 0]

-----------------------------------------------------------------------------
(* Actions *)

Init ==
    /\ frame_queue = <<>>
    /\ server_state = "Uninitialized"
    /\ file = Empty
    /\ dataset_write_pos = Empty
    /\ alive = [p \in Producers |-> TRUE]
    /\ host = "init"
    /\ sent = <<>>
    /\ delivered = <<>>
    /\ storage = NotOpened
    /\ buffer = [p \in Producers |-> {}]
    /\ raised = [t \in Threads |-> ""]
    /\ io_task = NoTask
    /\ fictrac = NoDriver
    /\ playlist = NoPlaylist

\* what an earlier run can have left at the path of the log file
PriorFiles == {Empty, Put(Empty, "/x", NewDataset(<<2, 2>>, "unlimited"))}

\* the table of write positions of the server object before it is started:
\* as __init__ leaves it, or with an entry
PriorWritePos == {Empty, Put(Empty, "/x", 2)}

\* the server is constructed where a log file may exist
InitPrior ==
    /\ frame_queue = <<>>
    /\ server_state = "Uninitialized"
    /\ file \in PriorFiles
    /\ dataset_write_pos \in PriorWritePos
    /\ alive = [p \in Producers |-> TRUE]
    /\ host = "init"
    /\ sent = <<>>
    /\ delivered = <<>>
    /\ storage = NotOpened
    /\ buffer = [p \in Producers |-> {}]
    /\ raised = [t \in Threads |-> ""]
    /\ io_task = NoTask
    /\ fictrac = NoDriver
    /\ playlist = NoPlaylist

\* main: start_logging_server, then start the producer tasks
HostStart ==
    /\ host = "init"
    /\ host' = "waiting"
    /\ server_state' = "Initializing"
    /\ UNCHANGED <<frame_queue, file, dataset_write_pos, alive, sent, delivered, storage, buffer, raised, io_task, fictrac,
                   playlist>>

\* a call of the proxy whose event the queue cannot serialize raises in
\* the caller; the tasks of main catch nothing, so the task ends
CallRaises(p) ==
    /\ raised' = [raised EXCEPT ![p] = "PicklingError"]
    /\ alive' = [alive EXCEPT ![p] = FALSE]
    /\ UNCHANGED <<frame_queue, sent, io_task, fictrac,
                   playlist>>

Enqueue(msg) ==
    /\ QueueHasRoom(frame_queue)
    /\ frame_queue' = QueuePut(frame_queue, Pickle(msg))
    /\ sent' = Append(sent, msg)

\* DatasetLogger.create
LoggerCreate(p, a, max) ==
    /\ host # "init"
    /\ alive[p]
    /\ NumEvents < max
    /\ LET e == DatasetCreateEvent(a[1], a[2], a[3], p, NextSeq(p)) IN
          IF Picklable(e) THEN Enqueue(e) /\ UNCHANGED <<alive, raised, io_task, fictrac,
                   playlist>>
          ELSE CallRaises(p)
    /\ UNCHANGED <<server_state, file, dataset_write_pos, host, delivered,
                   storage, buffer, io_task, fictrac,
                   playlist>>

\* mutant: the proxy writes the payload into the file itself
LoggerLog_WritesFile(p, a, max) ==
    /\ host # "init"
    /\ alive[p]
    /\ NumEvents < max
    /\ LET e == DatasetWriteEvent(a[1], a[2], a[3], p, NextSeq(p))
           r == Process(e, file, dataset_write_pos)
       IN  /\ Enqueue(e)
           /\ file' = IF e.dataset_name \in DOMAIN file THEN r.file ELSE file
           /\ dataset_write_pos' = dataset_write_pos
    /\ UNCHANGED <<server_state, alive, host, delivered, storage, buffer, raised, io_task, fictrac,
                   playlist>>

\* DatasetLogger.log
LoggerLog(p, a, max) ==
    /\ host # "init"
    /\ alive[p]
    /\ NumEvents < max
    /\ LET e == DatasetWriteEvent(a[1], a[2], a[3], p, NextSeq(p)) IN
          IF Picklable(e) THEN Enqueue(e) /\ UNCHANGED <<alive, raised, io_task, fictrac,
                   playlist>>
          ELSE CallRaises(p)
    /\ UNCHANGED <<server_state, file, dataset_write_pos, host, delivered,
                   storage, buffer, io_task, fictrac,
                   playlist>>

\* self._sender_queue.put(msg) by a holder of the proxy's queue
SenderPut(p, msg, max) ==
    /\ host # "init"
    /\ alive[p]
    /\ NumEvents < max
    /\ Enqueue(msg)
    /\ UNCHANGED <<server_state, file, dataset_write_pos, alive, host, delivered,
                   storage, buffer, raised, io_task, fictrac,
                   playlist>>

\* the producer reads new samples into the array it has logged; every
\* queued message that refers to the array shows the new samples
ProducerRefill(p) ==
    /\ host # "init"
    /\ alive[p]
    /\ QueuedArrays(frame_queue, p) \ buffer[p] # {}
    /\ buffer' = [buffer EXCEPT ![p] = @ \cup QueuedArrays(frame_queue, p)]
    /\ frame_queue' = [i \in DOMAIN frame_queue |->
                          IF Aliases(frame_queue[i], p)
                          THEN Refilled(frame_queue[i]) ELSE frame_queue[i]]
    /\ UNCHANGED <<server_state, file, dataset_write_pos, alive, host, sent,
                   delivered, storage, raised, io_task, fictrac,
                   playlist>>

\* a producer task returns
ProducerExit(p) ==
    /\ host # "init"
    /\ alive[p]
    /\ alive' = [alive EXCEPT ![p] = FALSE]
    /\ UNCHANGED <<frame_queue, server_state, file, dataset_write_pos, host,
                   sent, delivered, storage, buffer, raised, io_task, fictrac,
                   playlist>>

\* ConcurrentTask.finish: the shutdown signal is put on the task's queue
TaskFinish == Enqueue(NoneMsg)

\* main: the wait loop ends as soon as one of the tasks is not alive, then
\* stop_logging_server sends the shutdown signal
HostStop ==
    /\ host = "waiting"
    /\ ~(\A p \in Producers : alive[p])
    /\ host' = "stopping"
    /\ TaskFinish
    /\ UNCHANGED <<server_state, file, dataset_write_pos, alive, delivered, storage, buffer, raised, io_task, fictrac,
                   playlist>>

\* mutant: close returns at once
TaskClose_NoWait == TRUE

\* ConcurrentTask.close: waits until the task's process has ended
TaskClose == server_state \in {"Closed", "Failed"}

\* stop_logging_server after the shutdown signal is sent: close the task,
\* forget the file name, return to main
HostStopReturn ==
    /\ host = "stopping"
    /\ TaskClose
    /\ host' = "stopped"
    /\ UNCHANGED <<frame_queue, server_state, file, dataset_write_pos, alive,
                   sent, delivered, storage, buffer, raised, io_task, fictrac,
                   playlist>>

\* main: the server process is no longer alive
HostJoin ==
    /\ host = "stopped"
    /\ server_state \in {"Closed", "Failed"}
    /\ host' = "done"
    /\ UNCHANGED <<frame_queue, server_state, file, dataset_write_pos, alive,
                   sent, delivered, storage, buffer, raised, io_task, fictrac,
                   playlist>>

\* mutant: the file is opened for appending, what it holds is kept
InitializeStorage_AppendMode ==
    /\ server_state = "Initializing"
    /\ file' = file
    /\ storage' = ResetWritePos(OpenFile(storage, Empty), dataset_write_pos)
    /\ dataset_write_pos' = Empty
    /\ server_state' = "Running"
    /\ UNCHANGED <<frame_queue, alive, host, sent, delivered, buffer, raised, io_task, fictrac,
                   playlist>>

\* _thread_main up to the loop: _initialize_storage
InitializeStorage ==
    /\ server_state = "Initializing"
    /\ file' = Empty
    /\ storage' = ResetWritePos(OpenFile(storage, file), dataset_write_pos)
    /\ dataset_write_pos' = Empty
    /\ server_state' = "Running"
    /\ UNCHANGED <<frame_queue, alive, host, sent, delivered, buffer, raised, io_task, fictrac,
                   playlist>>

\* mutant: an event is dropped when the next message in the queue is an
\* overwrite of the same dataset
LoopProcess_Coalescing ==
    /\ server_state = "Running"
    /\ frame_queue # <<>>
    /\ LET msg == QueueFront(frame_queue)
           skip == /\ Len(frame_queue) >= 2
                   /\ frame_queue[2].type = "write"
                   /\ ~frame_queue[2].append
                   /\ frame_queue[2].dataset_name = msg.dataset_name
       IN
          /\ msg.type # "None"
          /\ LET r == IF skip THEN Result(file, dataset_write_pos, TRUE)
                      ELSE Dispatch(msg, file, dataset_write_pos) IN
                /\ file' = r.file
                /\ dataset_write_pos' = r.pos
                /\ storage' = AfterEvent(storage, msg, r.ok)
                /\ server_state' = IF r.ok THEN "Running" ELSE "Failed"
                /\ raised' = [raised EXCEPT ![ServerThread] = r.error]
          /\ delivered' = Append(delivered, msg)
    /\ frame_queue' = QueueRest(frame_queue)
    /\ UNCHANGED <<alive, host, sent, buffer, io_task, fictrac,
                   playlist>>

\* mutant: the file is flushed and closed when an event raises
LoopProcess_ClosesOnError ==
    /\ server_state = "Running"
    /\ frame_queue # <<>>
    /\ LET msg == QueueFront(frame_queue) IN
          /\ msg.type # "None"
          /\ LET r == Dispatch(msg, file, dataset_write_pos) IN
                /\ file' = r.file
                /\ dataset_write_pos' = r.pos
                /\ storage' = IF r.ok THEN AfterEvent(storage, msg, r.ok)
                              ELSE CloseFile(FlushFile(storage))
                /\ server_state' = IF r.ok THEN "Running" ELSE "Failed"
                /\ raised' = [raised EXCEPT ![ServerThread] = r.error]
          /\ delivered' = Append(delivered, msg)
    /\ frame_queue' = QueueRest(frame_queue)
    /\ UNCHANGED <<alive, host, sent, buffer, io_task, fictrac,
                   playlist>>

\* mutant: an event that raises is dropped and the loop goes on
LoopProcess_SkipFailed ==
    /\ server_state = "Running"
    /\ frame_queue # <<>>
    /\ LET msg == QueueFront(frame_queue) IN
          /\ msg.type # "None"
          /\ LET r == Dispatch(msg, file, dataset_write_pos) IN
                /\ file' = IF r.ok THEN r.file ELSE file
                /\ dataset_write_pos' = IF r.ok THEN r.pos ELSE dataset_write_pos
                /\ storage' = AfterEvent(storage, msg, r.ok)
                /\ server_state' = "Running"
                /\ raised' = raised
          /\ delivered' = Append(delivered, msg)
    /\ frame_queue' = QueueRest(frame_queue)
    /\ UNCHANGED <<alive, host, sent, buffer, io_task, fictrac,
                   playlist>>

\* one iteration of the loop of _thread_main on a message that is not None
LoopProcess ==
    /\ server_state = "Running"
    /\ frame_queue # <<>>
    /\ LET msg == QueueFront(frame_queue) IN
          /\ msg.type # "None"
          /\ LET r == Dispatch(msg, file, dataset_write_pos) IN
                /\ file' = r.file
                /\ dataset_write_pos' = r.pos
                /\ storage' = AfterEvent(storage, msg, r.ok)
                /\ server_state' = IF r.ok THEN "Running" ELSE "Failed"
                /\ raised' = [raised EXCEPT ![ServerThread] = r.error]
          /\ delivered' = Append(delivered, msg)
    /\ frame_queue' = QueueRest(frame_queue)
    /\ UNCHANGED <<alive, host, sent, buffer, io_task, fictrac,
                   playlist>>

\* mutant: the loop ends as soon as a shutdown signal is anywhere in the queue
LoopShutdown_Eager ==
    /\ server_state = "Running"
    /\ \E i \in DOMAIN frame_queue : frame_queue[i].type = "None"
    /\ delivered' = Append(delivered, NoneMsg)
    /\ frame_queue' = <<>>
    /\ server_state' = "Finalizing"
    /\ UNCHANGED <<file, dataset_write_pos, alive, host, sent, storage, buffer, raised, io_task, fictrac,
                   playlist>>

\* mutant: the shutdown signal is taken from the queue and the loop goes on
LoopShutdown_Ignored ==
    /\ server_state = "Running"
    /\ frame_queue # <<>>
    /\ QueueFront(frame_queue).type = "None"
    /\ delivered' = Append(delivered, QueueFront(frame_queue))
    /\ frame_queue' = QueueRest(frame_queue)
    /\ server_state' = IF Len(frame_queue) > 1 THEN "Running" ELSE "Finalizing"
    /\ UNCHANGED <<file, dataset_write_pos, alive, host, sent, storage, buffer,
                   raised, io_task, fictrac,
                   playlist>>

\* one iteration of the loop of _thread_main on the shutdown signal
LoopShutdown ==
    /\ server_state = "Running"
    /\ frame_queue # <<>>
    /\ QueueFront(frame_queue).type = "None"
    /\ delivered' = Append(delivered, QueueFront(frame_queue))
    /\ frame_queue' = QueueRest(frame_queue)
    /\ server_state' = "Finalizing"
    /\ UNCHANGED <<file, dataset_write_pos, alive, host, sent, storage, buffer, raised, io_task, fictrac,
                   playlist>>

\* mutant: the storage is also closed out when the loop ended with an error
FinalizeStorage_Finally ==
    /\ server_state \in {"Finalizing", "Failed"}
    /\ storage.open
    /\ storage' = CloseFile(FlushFile(storage))
    /\ server_state' = "Closed"
    /\ UNCHANGED <<frame_queue, file, dataset_write_pos, alive, host, sent,
                   delivered, buffer, raised, io_task, fictrac,
                   playlist>>

\* _finalize_storage
FinalizeStorage ==
    /\ server_state = "Finalizing"
    /\ storage' = CloseFile(FlushFile(storage))
    /\ server_state' = "Closed"
    /\ UNCHANGED <<frame_queue, file, dataset_write_pos, alive, host, sent,
                   delivered, buffer, raised, io_task, fictrac,
                   playlist>>

Server ==
    \/ InitializeStorage
    \/ LoopProcess
    \/ LoopShutdown
    \/ FinalizeStorage

Host ==
    \/ HostStart
    \/ \E p \in Producers : ProducerExit(p)
    \/ HostStop
    \/ HostStopReturn
    \/ HostJoin

\* any producer logs anything
Next ==
    \/ \E p \in Producers : \E a \in CreateInputs :
          LoggerCreate(p, a, MaxEvents)
    \/ \E p \in Producers : \E a \in LogInputs(p, NextSeq(p)) :
          LoggerLog(p, a, MaxEvents)
    \/ Host
    \/ Server

Spec == Init /\ [][Next]_vars

\* the producers are the two tasks of main
NextWorkers ==
    \/ \E p \in Producers : \E a \in WorkerCreateInputs(p) :
          LoggerCreate(p, a, MaxEvents)
    \/ \E p \in Producers : \E a \in WorkerLogInputs(p, NextSeq(p)) :
          LoggerLog(p, a, MaxEvents)
    \/ Host
    \/ Server

SpecWorkers == Init /\ [][NextWorkers]_vars

\* the queue also gets messages that are neither create nor write events
NextProtocol ==
    \/ \E p \in Producers : \E a \in ProtocolCreateInputs :
          LoggerCreate(p, a, MaxEvents)
    \/ \E p \in Producers : \E a \in ProtocolLogInputs(p, NextSeq(p)) :
          LoggerLog(p, a, MaxEvents)
    \/ \E p \in Producers : \E msg \in ForeignMessages(p, NextSeq(p)) :
          SenderPut(p, msg, MaxEvents)
    \/ Host
    \/ Server

SpecProtocol == Init /\ [][NextProtocol]_vars

\* the producers also pass arguments the queue cannot serialize
NextTransport ==
    \/ \E p \in Producers :
          \E a \in ProtocolCreateInputs \cup UnpicklableCreateInputs :
             LoggerCreate(p, a, MaxEvents)
    \/ \E p \in Producers :
          \E a \in ProtocolLogInputs(p, NextSeq(p)) \cup UnpicklableLogInputs :
             LoggerLog(p, a, MaxEvents)
    \/ Host
    \/ Server

SpecTransport == Init /\ [][NextTransport]_vars

\* the server is started where an earlier run has left a file
NextPrior ==
    \/ \E p \in Producers : \E a \in ProtocolCreateInputs :
          LoggerCreate(p, a, MaxEvents)
    \/ \E p \in Producers : \E a \in ProtocolLogInputs(p, NextSeq(p)) :
          LoggerLog(p, a, MaxEvents)
    \/ Host
    \/ Server

SpecPrior == InitPrior /\ [][NextPrior]_vars

\* mappings are logged, and arrays to paths that have no dataset
NextNested ==
    \/ \E p \in Producers : \E a \in NestedLogInputs(p, NextSeq(p)) :
          LoggerLog(p, a, MaxEvents)
    \/ Host
    \/ Server

SpecNested == Init /\ [][NextNested]_vars

\* each producer creates a dataset of its own and logs arrays to it
NextArrays ==
    \/ \E p \in Producers : \E a \in ArrayCreateInputs(p) :
          LoggerCreate(p, a, MaxEvents)
    \/ \E p \in Producers : \E a \in ArrayLogInputs(p, NextSeq(p)) :
          LoggerLog(p, a, MaxEvents)
    \/ Host
    \/ Server

SpecArrays == Init /\ [][NextArrays]_vars

\* the events of the producers that log one mapping per kind of value
MaxKindEvents == 2

\* the producers log mappings with values of every kind
NextKinds ==
    \/ \E p \in Producers : \E a \in KindLogInputs(p, NextSeq(p)) :
          LoggerLog(p, a, MaxKindEvents)
    \/ Host
    \/ Server

SpecKinds == Init /\ [][NextKinds]_vars

\* room for a create and one append more than the other specifications have
MaxAppendEvents == MaxEvents + 1

\* the producers create an empty dataset and append to it
NextAppend ==
    \/ \E p \in Producers : \E a \in ProtocolCreateInputs :
          LoggerCreate(p, a, MaxAppendEvents)
    \/ \E p \in Producers : \E a \in AppendInputs(p, NextSeq(p)) :
          LoggerLog(p, a, MaxAppendEvents)
    \/ Host
    \/ Server

SpecAppend == Init /\ [][NextAppend]_vars

\* the producers log the array they keep reading samples into
NextBuffers ==
    \/ \E p \in Producers : \E a \in ProtocolCreateInputs :
          LoggerCreate(p, a, MaxEvents)
    \/ \E p \in Producers : \E a \in BufferInputs(p, NextSeq(p)) :
          LoggerLog(p, a, MaxEvents)
    \/ \E p \in Producers : ProducerRefill(p)
    \/ Host
    \/ Server

SpecBuffers == Init /\ [][NextBuffers]_vars

-----------------------------------------------------------------------------
(* What the histories say *)

\* the server has run msg.process, in this order, on the log events of s up
\* to the first one that raised
RECURSIVE Replay(_, _)
Replay(st, s) ==
    IF s = <<>> \/ ~st.ok \/ Head(s).type = "None" THEN st
    ELSE Replay(Dispatch(Head(s), st.file, st.pos), Tail(s))

Opened == Result(Empty, Empty, TRUE)

\* the messages put before the first shutdown signal
RECURSIVE BeforeNone(_)
BeforeNone(s) ==
    IF s = <<>> \/ Head(s).type = "None" THEN <<>>
    ELSE <<Head(s)>> \o BeforeNone(Tail(s))

IsAppend(e) == e.type = "write" /\ e.obj.kind = "ndarray" /\ e.append
IsOverwrite(e) == e.type = "write" /\ e.obj.kind = "ndarray" /\ ~e.append

Payloads(evs) == [i \in 1..Len(evs) |-> evs[i].obj.data]

\* the events delivered for dataset name are one create followed by n >= 0
\* appends only, and none of them raised
AppendsOnly(name) ==
    LET evs == SelectEvents(delivered, name) IN
    /\ server_state # "Failed"
    /\ evs # <<>>
    /\ evs[1].type = "create"
    /\ \A i \in 2..Len(evs) : IsAppend(evs[i])

Appends(name) == Tail(SelectEvents(delivered, name))

\* this step is one iteration of the server loop on log event msg
Processing(msg) ==
    /\ server_state = "Running"
    /\ frame_queue # <<>>
    /\ msg = Head(frame_queue)
    /\ msg.type # "None"
    /\ delivered' = Append(delivered, msg)

-----------------------------------------------------------------------------
(* C1 *)

\* C1 as stated: after a create with initial length L0 and N appends of
\* len_1..len_N rows, the dataset has L0 + (len_1 + ... + len_N) rows
C1_LengthIsInitialPlusAppended ==
    \A name \in DatasetNames :
        AppendsOnly(name) =>
            file[name].shape[1] =
                SelectEvents(delivered, name)[1].shape[1]
                    + SumLen(Payloads(Appends(name)))

\* C1 as amended: after a create (any initial length) and N >= 1 appends the
\* dataset has exactly len_1 + ... + len_N rows, the write position is that
\* sum, and rows [cursor_i, cursor_i + len_i) are payload i, cursor_i being
\* the sum of the earlier lengths
C1_LengthIsAppended ==
    \A name \in DatasetNames :
        (AppendsOnly(name) /\ Appends(name) # <<>>) =>
            LET pl == Payloads(Appends(name))
                cursor(i) == SumLen(SubSeq(pl, 1, i - 1))
            IN  /\ file[name].shape[1] = SumLen(pl)
                /\ Len(file[name].data) = SumLen(pl)
                /\ dataset_write_pos[name] = SumLen(pl)
                /\ \A i \in 1..Len(pl) :
                      SubSeq(file[name].data, cursor(i) + 1, cursor(i) + Len(pl[i]))
                          = pl[i]

\* two appends of different lengths went into a dataset created with rows
C1_Witness ==
    \E name \in DatasetNames :
        /\ AppendsOnly(name)
        /\ Len(Appends(name)) >= 2
        /\ SelectEvents(delivered, name)[1].shape[1] > 0
        /\ Len(Appends(name)[1].obj.data) # Len(Appends(name)[2].obj.data)

-----------------------------------------------------------------------------
(* C2 *)

\* C2: once the loop has ended on the shutdown signal, every message put
\* before the signal has been delivered and the file holds the effect of
\* all of them
C2_ShutdownAfterPending ==
    server_state \in {"Finalizing", "Closed"} =>
        /\ delivered = BeforeNone(sent) \o <<NoneMsg>>
        /\ Replay(Opened, BeforeNone(sent)) = Result(file, dataset_write_pos, TRUE)

\* the file was closed after two writes that were put before the signal
C2_Witness ==
    /\ server_state = "Closed"
    /\ Len(BeforeNone(sent)) >= 3
    /\ \E i, j \in DOMAIN delivered :
          i < j /\ IsAppend(delivered[i]) /\ IsAppend(delivered[j])

-----------------------------------------------------------------------------
(* C3 *)

Range(s) == {s[i] : i \in DOMAIN s}

\* the producers have put, for dataset name, one create and then appends only
EmittedAppendsOnly(name) ==
    LET evs == SelectEvents(sent, name) IN
    /\ Len(evs) >= 2
    /\ evs[1].type = "create"
    /\ \A i \in 2..Len(evs) : IsAppend(evs[i])

EmittedRecords(name) == Concat(Payloads(Tail(SelectEvents(sent, name))))

\* C3: when all producers have returned and the server has shut down, the
\* dataset the producers appended to holds as many rows as they emitted, and
\* every emitted row exactly once
C3_NoLossNoDuplication ==
    \A name \in DatasetNames :
        (/\ host = "done"
         /\ server_state = "Closed"
         /\ \A p \in Producers : ~alive[p]
         /\ EmittedAppendsOnly(name)) =>
            /\ name \in DOMAIN file
            /\ Len(file[name].data) = Len(EmittedRecords(name))
            /\ \A r \in Range(EmittedRecords(name)) :
                  Cardinality({i \in DOMAIN file[name].data :
                                  file[name].data[i] = r}) = 1

-----------------------------------------------------------------------------
(* C4 *)

\* C4: a step that puts a message on the queue changes neither the file nor
\* the write positions, and they change only in a step of the server loop
C4_OnlyServerWrites ==
    [][/\ (sent' # sent) => (file' = file /\ dataset_write_pos' = dataset_write_pos)
       /\ (file' # file \/ dataset_write_pos' # dataset_write_pos) =>
             (server_state = "Running" /\ Len(delivered') = Len(delivered) + 1)
      ]_vars

\* both producers have logged and the server has written to the file
C4_Witness ==
    /\ \A p \in Producers : SelectSrc(sent, p) # <<>>
    /\ file # Empty
    /\ dataset_write_pos # Empty

-----------------------------------------------------------------------------
(* C5 *)

\* C5: the file and the write positions are the result of running process on
\* the delivered events one after the other in delivery order, every message
\* taken from the queue was delivered, and the loop has stopped on an error
\* exactly if one of them raised
C5_EffectsInDeliveryOrder ==
    server_state # "Uninitialized" /\ server_state # "Initializing" =>
        LET r == Replay(Opened, delivered) IN
        /\ file = r.file
        /\ dataset_write_pos = r.pos
        /\ (server_state = "Failed") = ~r.ok
        /\ Len(delivered) + Len(frame_queue) = Len(sent)

\* three events were applied, the last an append behind an overwrite
C5_Witness ==
    /\ Len(delivered) >= 3
    /\ server_state = "Running"
    /\ IsOverwrite(delivered[2])
    /\ IsAppend(delivered[3])

-----------------------------------------------------------------------------
(* C6 *)

\* C6: for each producer, the events of that producer that the server has
\* processed are the first ones it issued, in the order it issued them
C6_PerProducerFifo ==
    \A p \in Producers : IsPrefix(SelectSrc(delivered, p), SelectSrc(sent, p))

\* two events of one producer were delivered around one of the other
C6_Witness ==
    /\ Len(delivered) >= 3
    /\ delivered[1].src = delivered[3].src
    /\ delivered[2].src # delivered[1].src
    /\ delivered[2].src \in Producers

-----------------------------------------------------------------------------
(* C7 *)

Rows(f, name) == f[name].shape[1]

-----------------------------------------------------------------------------
(* C8 *)

\* C8: an overwrite whose payload shape is not the shape of the dataset
\* stops the loop with an error and changes neither the file nor the write
\* positions
C8_MismatchRejected ==
    [][LET msg == Head(frame_queue) IN
       (Processing(msg) /\ IsOverwrite(msg) /\ msg.dataset_name \in DOMAIN file
           /\ file[msg.dataset_name].shape # msg.obj.shape) =>
              /\ server_state' = "Failed"
              /\ file' = file
              /\ dataset_write_pos' = dataset_write_pos
      ]_vars

\* an overwrite of the wrong shape was the last event processed, on a
\* dataset that earlier appends had filled
C8_Witness ==
    /\ server_state = "Failed"
    /\ Len(delivered) >= 3
    /\ LET msg == delivered[Len(delivered)] IN
          /\ IsOverwrite(msg)
          /\ msg.dataset_name \in DOMAIN file
          /\ file[msg.dataset_name].shape # msg.obj.shape
          /\ msg.dataset_name \in DOMAIN dataset_write_pos

-----------------------------------------------------------------------------
(* C9 and C10 *)

\* the last event delivered for dataset name
LastOn(name) ==
    LET evs == SelectEvents(delivered, name) IN evs[Len(evs)]

SameCreate(a, b) ==
    /\ a.type = "create" /\ b.type = "create"
    /\ a.dataset_name = b.dataset_name
    /\ a.shape = b.shape
    /\ a.maxshape = b.maxshape

\* C9: processing a create right after a create with the same parameters
\* for the same path leaves the file as the first create left it: one
\* dataset at the path, same shape and contents, and the loop goes on
C9_CreateIdempotent ==
    [][LET msg == Head(frame_queue) IN
       (Processing(msg) /\ msg.type = "create"
           /\ SelectEvents(delivered, msg.dataset_name) # <<>>
           /\ SameCreate(LastOn(msg.dataset_name), msg)) =>
              /\ file' = file
              /\ dataset_write_pos' = dataset_write_pos
              /\ server_state' = "Running"
      ]_vars

\* two creates with the same parameters were processed one after the other
C9_Witness ==
    /\ server_state = "Running"
    /\ \E i \in DOMAIN delivered :
          /\ i + 1 \in DOMAIN delivered
          /\ SameCreate(delivered[i], delivered[i + 1])
          /\ delivered[i].shape[1] > 0

\* C10: a create for a path that already has a dataset changes nothing and
\* does not end the loop
C10_CreateOnExistingIsNoOp ==
    [][LET msg == Head(frame_queue) IN
       (Processing(msg) /\ msg.type = "create" /\ msg.dataset_name \in DOMAIN file) =>
              /\ file' = file
              /\ dataset_write_pos' = dataset_write_pos
              /\ server_state' = "Running"
      ]_vars

-----------------------------------------------------------------------------
(* C11 *)

IsDefinedEvent(msg) == msg.type \in {"create", "write"}

\* C11: a message taken from the queue that is neither the shutdown signal
\* nor a create or write event ends the loop with an error and changes
\* neither the file, the handle nor the write positions; once the loop has
\* ended with an error nothing more is taken from the queue, so every
\* delivered message but the last is a create or write event
C11_ForeignMessageIsFatal ==
    [][/\ LET msg == Head(frame_queue) IN
          (Processing(msg) /\ ~IsDefinedEvent(msg)) =>
              /\ server_state' = "Failed"
              /\ file' = file
              /\ dataset_write_pos' = dataset_write_pos
              /\ storage' = storage
       /\ server_state = "Failed" =>
              /\ server_state' = "Failed"
              /\ delivered' = delivered
              /\ file' = file
              /\ dataset_write_pos' = dataset_write_pos
       /\ \A i \in 1..(Len(delivered') - 1) : IsDefinedEvent(delivered'[i])
      ]_vars

\* the loop ended on an object of another class, after it had written to
\* the file and with a write event still in the queue
C11_Witness ==
    /\ server_state = "Failed"
    /\ delivered # <<>>
    /\ delivered[Len(delivered)].type = "object"
    /\ file # Empty
    /\ \E i \in DOMAIN frame_queue : frame_queue[i].type = "write"

\* the loop ended on an instance of the base class
C11_WitnessBaseClass ==
    /\ server_state = "Failed"
    /\ delivered # <<>>
    /\ delivered[Len(delivered)].type = "event"

-----------------------------------------------------------------------------
(* C12 *)

\* the number of create events at the end of s
RECURSIVE TrailingCreates(_)
TrailingCreates(s) ==
    IF s = <<>> \/ s[Len(s)].type # "create" THEN 0
    ELSE 1 + TrailingCreates(SubSeq(s, 1, Len(s) - 1))

\* C12 as stated: whenever the loop is about to take the next message, every
\* event processed so far has been flushed, and there is never more than
\* one event that was processed and not flushed
C12_FlushedAfterEveryEvent ==
    /\ server_state = "Running" => storage.unflushed = 0
    /\ storage.unflushed <= 1

\* C12 as amended: whenever the loop is about to take the next message, the
\* events processed and not yet flushed are the create events processed
\* since the last write event: none right after a write event, one more
\* with every create event; the closed file has none
C12_FlushedAfterEveryWrite ==
    /\ server_state = "Running" => storage.unflushed = TrailingCreates(delivered)
    /\ server_state = "Closed" => storage.unflushed = 0

\* a mapping write was processed after two creates that were not flushed
C12_Witness ==
    /\ server_state = "Running"
    /\ Len(delivered) = 3
    /\ delivered[1].type = "create"
    /\ delivered[2].type = "create"
    /\ delivered[3].type = "write"
    /\ delivered[3].obj.kind = "dict"
    /\ storage.unflushed = 0

-----------------------------------------------------------------------------
(* C13 *)

-----------------------------------------------------------------------------
(* C14 *)

Lifecycle ==
    {<<"Uninitialized", "Initializing">>, <<"Initializing", "Running">>,
     <<"Running", "Finalizing">>, <<"Finalizing", "Closed">>}

\* the server neither changes state nor touches the queue, the file, the
\* handle or the write positions
ServerIdle ==
    /\ server_state' = server_state
    /\ delivered' = delivered
    /\ file' = file
    /\ dataset_write_pos' = dataset_write_pos
    /\ storage' = storage

-----------------------------------------------------------------------------
(* C15 *)

\* the k-th message producer p has put, as it was at the call
SentBy(p, k) == SelectSrc(sent, p)[k]

\* the last n rows of dataset name in file f
LastRows(f, name, n) ==
    SubSeq(f[name].data, Len(f[name].data) - n + 1, Len(f[name].data))

-----------------------------------------------------------------------------
(* C16 *)

\* producer p holds the proxy and has calls left to make
CanCall(p) == host # "init" /\ alive[p] /\ NumEvents < MaxEvents

\* C16: a producer that holds the proxy can always complete create() and
\* log(), whatever the length of the queue and the state of the server; a
\* call puts exactly one message at the end of the queue and changes nothing
\* else but the history of puts: nothing of the server, and nothing comes
\* back to the producer
C16_CallsNeverWait ==
    [][/\ \A p \in Producers :
            CanCall(p) =>
               /\ ENABLED (\E a \in CreateInputs : LoggerCreate(p, a, MaxEvents))
               /\ ENABLED (\E a \in LogInputs(p, NextSeq(p)) :
                              LoggerLog(p, a, MaxEvents))
       /\ (Len(sent') > Len(sent) /\ sent'[Len(sent')].type # "None") =>
               /\ Len(sent') = Len(sent) + 1
               /\ frame_queue' = Append(frame_queue, sent'[Len(sent')])
               /\ UNCHANGED <<server_state, file, dataset_write_pos, storage,
                              delivered, alive, host, raised>>
      ]_vars

\* a producer can call although the server has ended and the queue holds
\* two messages that nobody will take
C16_Witness ==
    /\ server_state \in {"Failed", "Closed"}
    /\ Len(frame_queue) >= 2
    /\ \E p \in Producers : CanCall(p)

-----------------------------------------------------------------------------
(* C17 *)

\* C17: after a create with leading length 0 and N >= 1 appends of r rows
\* each, the dataset has shape (N * r, width) and the write position of its
\* path is N * r
C17_EqualAppends ==
    \A name \in DatasetNames : \A r \in RowCounts :
        (/\ AppendsOnly(name)
         /\ SelectEvents(delivered, name)[1].shape[1] = 0
         /\ Appends(name) # <<>>
         /\ \A i \in DOMAIN Appends(name) : Appends(name)[i].obj.shape[1] = r) =>
            LET N == Len(Appends(name))
                width == SelectEvents(delivered, name)[1].shape[2]
            IN  /\ file[name].shape = <<N * r, width>>
                /\ name \in DOMAIN dataset_write_pos
                /\ dataset_write_pos[name] = N * r

\* three appends of two rows each went into a dataset created empty
C17_Witness ==
    \E name \in DatasetNames :
        /\ AppendsOnly(name)
        /\ SelectEvents(delivered, name)[1].shape[1] = 0
        /\ Len(Appends(name)) = 3
        /\ \A i \in 1..3 : Appends(name)[i].obj.shape[1] = 2
        /\ file[name].shape[1] = 6

-----------------------------------------------------------------------------
(* C18 *)

\* the leaf at name holds val, stored by the encoding rule
HoldsLeaf(f, name, stored, val) ==
    /\ name \in DOMAIN f
    /\ f[name].stored = stored
    /\ f[name].data = <<Row(1, val)>>

\* C18: processing the write of {"a": 1, "b": {"c": "text", "d": [1, 2, 3]}}
\* under path P, in a file that has nothing below P, does not end the loop
\* and leaves the leaves P/a == 1, P/b/c == utf8("text") and
\* P/b/d == [1, 2, 3] as an array, each at P followed by its key chain
C18_ExampleMappingStored ==
    [][LET msg == Head(frame_queue) IN
       (Processing(msg) /\ msg.type = "write" /\ msg.obj = int_mapping
           /\ msg.dataset_name \in MappingPaths /\ file = Empty) =>
              /\ server_state' = "Running"
              /\ HoldsLeaf(file', "/P/a", "as-is", 1)
              /\ HoldsLeaf(file', "/P/b/c", "utf8", encode_utf8("text"))
              /\ HoldsLeaf(file', "/P/b/d", "asarray",
                           <<Elem("int", "1"), Elem("int", "2"), Elem("int", "3")>>)
      ]_vars

-----------------------------------------------------------------------------
(* C19 *)

\* no dataset is linked at name: nothing is, or a group is
NoDatasetAt(f, name) == name \notin DOMAIN f \/ IsGroup(f, name)

IsArrayWrite(msg) == msg.type = "write" /\ msg.obj.kind = "ndarray"

\* C19 as stated: an array write, append or not, to a path that has no
\* dataset ends the loop with an error and changes neither the file nor the
\* write positions
C19_NoDatasetNoChange ==
    [][LET msg == Head(frame_queue) IN
       (Processing(msg) /\ IsArrayWrite(msg)
           /\ NoDatasetAt(file, msg.dataset_name)) =>
              /\ server_state' = "Failed"
              /\ file' = file
              /\ dataset_write_pos' = dataset_write_pos
      ]_vars

\* C19 as amended: an array write to a path that has no dataset ends the
\* loop with an error and leaves the file as it was; the write positions
\* are left as they were too, except by an append to a path that names a
\* group, which gives the path the write position 0 before it fails
C19_NoDatasetNoCreate ==
    [][LET msg == Head(frame_queue) IN
       (Processing(msg) /\ IsArrayWrite(msg)
           /\ NoDatasetAt(file, msg.dataset_name)) =>
              /\ server_state' = "Failed"
              /\ file' = file
              /\ dataset_write_pos' =
                    IF msg.append /\ IsGroup(file, msg.dataset_name)
                    THEN Put(dataset_write_pos, msg.dataset_name, 0)
                    ELSE dataset_write_pos
      ]_vars

\* the loop ended on an append to the group a mapping was written to, and
\* the group's path has a write position
C19_Witness ==
    /\ server_state = "Failed"
    /\ delivered # <<>>
    /\ IsAppend(delivered[Len(delivered)])
    /\ IsGroup(file, delivered[Len(delivered)].dataset_name)
    /\ delivered[Len(delivered)].dataset_name \in DOMAIN dataset_write_pos

\* the loop ended on an append to a path nothing is linked at
C19_WitnessNothingLinked ==
    /\ server_state = "Failed"
    /\ delivered # <<>>
    /\ IsAppend(delivered[Len(delivered)])
    /\ delivered[Len(delivered)].dataset_name \notin DOMAIN file
    /\ file # Empty
    /\ dataset_write_pos = Empty

-----------------------------------------------------------------------------
(* C20 *)

\* C20: when the server enters its loop, before it has taken a message, the
\* file is open and holds nothing and the table of write positions is
\* empty, whatever the file at the path held and whatever the table held
\* before; what follows is the effect of the delivered events on an empty
\* file and an empty table
C20_StartsEmpty ==
    /\ (server_state = "Running" /\ delivered = <<>>) =>
          /\ file = Empty
          /\ dataset_write_pos = Empty
          /\ storage.open
          /\ storage.unflushed = 0
    /\ server_state \in {"Running", "Finalizing", "Closed", "Failed"} =>
          /\ file = Replay(Opened, delivered).file
          /\ dataset_write_pos = Replay(Opened, delivered).pos

\* the start has destroyed a dataset and forgotten a write position; the
\* create and the append processed since have made the dataset anew, with
\* one row
C20_Witness ==
    /\ server_state = "Running"
    /\ storage.destroyed > 0
    /\ storage.forgotten > 0
    /\ Len(delivered) = 2
    /\ "/x" \in DOMAIN file
    /\ file["/x"].shape[1] = 1
    /\ "/x" \in DOMAIN dataset_write_pos
    /\ dataset_write_pos["/x"] = 1

-----------------------------------------------------------------------------
(* C21 *)

\* the event holds something the queue cannot serialize
HoldsGenerator(msg) ==
    \/ msg.type = "create" /\ msg.maxshape = "generator"
    \/ msg.type = "write" /\ msg.obj.kind = "generator"

\* C21: a payload or create argument that cannot be serialized makes the
\* call of log or create raise in the caller: the step in which a producer
\* gets the exception puts nothing on the queue and touches nothing of the
\* server, the server never gets the exception, and no event that holds
\* such an argument is ever put on the queue or delivered
C21_UnserializableFailsAtCall ==
    [][/\ \A i \in DOMAIN sent' : ~HoldsGenerator(sent'[i])
       /\ \A i \in DOMAIN frame_queue' : ~HoldsGenerator(frame_queue'[i])
       /\ \A i \in DOMAIN delivered' : ~HoldsGenerator(delivered'[i])
       /\ raised'[ServerThread] # "PicklingError"
       /\ \A p \in Producers :
             raised'[p] # raised[p] =>
                /\ raised'[p] = "PicklingError"
                /\ ~alive'[p]
                /\ UNCHANGED <<frame_queue, sent, delivered, server_state,
                               file, dataset_write_pos, storage>>]_vars

\* a call has raised in a producer, the events of the other calls were all
\* processed and the file is closed
C21_Witness ==
    /\ \E p \in Producers : raised[p] = "PicklingError"
    /\ raised[ServerThread] = ""
    /\ server_state = "Closed"
    /\ Len(delivered) = MaxEvents
    /\ Len(sent) = MaxEvents

-----------------------------------------------------------------------------
(* C22 *)

\* C22 as stated: no write event is skipped. Processing a write event whose
\* payload is a mapping or an array either ends the loop with an error or
\* leaves the file and the write positions that the payload's branch
\* produces; a write event with any other payload, for which no storage
\* effect is defined, ends the loop with an error
C22_NoWriteSkipped ==
    [][LET msg == Head(frame_queue) IN
       (Processing(msg) /\ msg.type = "write") =>
          IF msg.obj.kind \in {"dict", "ndarray"}
          THEN \/ server_state' = "Failed"
               \/ /\ file' = ProcessWrite(msg, file, dataset_write_pos).file
                  /\ dataset_write_pos'
                        = ProcessWrite(msg, file, dataset_write_pos).pos
          ELSE server_state' = "Failed"
      ]_vars

-----------------------------------------------------------------------------
(* C23 *)

\* stop_logging_server has returned
StopReturned == host \in {"stopped", "done"}

C23_WitnessFailed ==
    /\ host = "stopped"
    /\ server_state = "Failed"
    /\ Len(delivered) = 2
    /\ Len(frame_queue) = 2

-----------------------------------------------------------------------------
(* C24 *)

\* C24: while the file is open, no step removes a path from the table of
\* write positions or lowers its write position, and every write position
\* is a natural number, whatever events are processed: creates, appends,
\* overwrites, mapping writes, and events that raise
C24_CursorMonotone ==
    [][storage.open =>
          /\ \A name \in DOMAIN dataset_write_pos :
                /\ name \in DOMAIN dataset_write_pos'
                /\ dataset_write_pos'[name] >= dataset_write_pos[name]
          /\ \A name \in DOMAIN dataset_write_pos' :
                dataset_write_pos'[name] \in Nat
      ]_vars

\* the write position of a path was raised by each of two appends, and the
\* file is still open
C24_Witness ==
    \E name \in DOMAIN dataset_write_pos :
        /\ storage.open
        /\ dataset_write_pos[name] >= 2
        /\ \E i, j \in DOMAIN delivered :
              /\ i < j
              /\ IsAppend(delivered[i]) /\ delivered[i].dataset_name = name
              /\ IsAppend(delivered[j]) /\ delivered[j].dataset_name = name

-----------------------------------------------------------------------------
(* C25 *)

\* the write position an append to name starts from
Cursor(wp, name) == IF name \in DOMAIN wp THEN wp[name] ELSE 0

-----------------------------------------------------------------------------
(* C26 *)

\* C26: right after the server has processed an append to a path without
\* raising, the write position stored for the path is the number of rows
\* of the dataset, which is the old write position plus the rows of the
\* payload; the payload is in the rows from the old write position on, and
\* the rows before it are as they were
C26_CursorIsLengthAfterAppend ==
    [][LET msg == Head(frame_queue)
           name == msg.dataset_name
           old == Cursor(dataset_write_pos, name)
           n == msg.obj.shape[1]
       IN
       (Processing(msg) /\ IsAppend(msg) /\ server_state' = "Running") =>
           /\ name \in DOMAIN dataset_write_pos'
           /\ dataset_write_pos'[name] = Rows(file', name)
           /\ dataset_write_pos'[name] = old + n
           /\ Len(file'[name].data) = old + n
           /\ SubSeq(file'[name].data, old + 1, old + n) = msg.obj.data
           /\ SubSeq(file'[name].data, 1, old) = SubSeq(file[name].data, 1, old)
      ]_vars

\* an append of two rows was processed at write position 1: the dataset
\* has three rows, the last two are the payload, the write position is 3
C26_Witness ==
    \E name \in DOMAIN dataset_write_pos :
        /\ server_state = "Running"
        /\ delivered # <<>>
        /\ LET last == delivered[Len(delivered)] IN
              /\ IsAppend(last)
              /\ last.dataset_name = name
              /\ last.obj.shape[1] = 2
              /\ dataset_write_pos[name] = 3
              /\ Rows(file, name) = 3
              /\ LastRows(file, name, 2) = last.obj.data

-----------------------------------------------------------------------------
(* C27 *)

\* event i of delivered is an append to name
IsAppendTo(i, name) ==
    IsAppend(delivered[i]) /\ delivered[i].dataset_name = name

\* the paths that have a write position or were the target of an append
CursorPaths ==
    DOMAIN dataset_write_pos
        \cup {delivered[i].dataset_name :
                 i \in {j \in DOMAIN delivered : IsAppend(delivered[j])}}

\* C27 as stated: in every state a path has a write position if and only
\* if the server has taken at least one append to that path since the file
\* was opened
C27_EntryIffAppended ==
    \A name \in CursorPaths :
        (name \in DOMAIN dataset_write_pos)
            <=> (\E i \in DOMAIN delivered : IsAppendTo(i, name))

\* the lookup of the write position was reached for event i: every event
\* but the one that ended the loop was processed to its end, and the one
\* that ended the loop got past file_handle[name] if the path is linked
ReachedLookup(i, name) ==
    /\ IsAppendTo(i, name)
    /\ (i = Len(delivered) /\ server_state = "Failed") => name \in DOMAIN file

\* C27 as amended: in every state a path has a write position if and only
\* if the server has taken an append to that path while something was
\* linked at the path; the append need not have succeeded. Processing a
\* create, an overwrite or a mapping write changes no write position
C27_EntryIffAppendFoundPath ==
    [][/\ \A name \in CursorPaths' :
             (name \in DOMAIN dataset_write_pos')
                 <=> (\E i \in DOMAIN delivered' : ReachedLookup(i, name)')
       /\ LET msg == Head(frame_queue) IN
          (Processing(msg) /\ ~IsAppend(msg)) =>
              dataset_write_pos' = dataset_write_pos
      ]_vars

\* a create, a mapping write and an append were processed, and the only
\* path with a write position is the path of the append
C27_Witness ==
    /\ server_state = "Running"
    /\ \E i, j, k \in DOMAIN delivered :
          /\ delivered[i].type = "create"
          /\ delivered[j].type = "write" /\ delivered[j].obj.kind = "dict"
          /\ IsAppend(delivered[k])
          /\ DOMAIN dataset_write_pos = {delivered[k].dataset_name}

\* an append of the wrong width has ended the loop and left the write
\* position 0 for a dataset no append has been written to
C27_WitnessFailedAppend ==
    /\ server_state = "Failed"
    /\ Len(delivered) = 2
    /\ delivered[1].type = "create"
    /\ IsAppend(delivered[2])
    /\ delivered[2].dataset_name \in DOMAIN dataset_write_pos
    /\ dataset_write_pos[delivered[2].dataset_name] = 0

-----------------------------------------------------------------------------
(* C28 *)

\* C28 as stated: processing the write of a mapping whose values can all
\* be encoded never raises, also when leaves of the same names exist from
\* an earlier write; afterwards every leaf holds the value of this write,
\* and the write positions are what they were
C28_MappingWriteOverwrites ==
    [][LET msg == Head(frame_queue) IN
       (Processing(msg) /\ msg.type = "write" /\ msg.obj = test2_dataset) =>
           /\ server_state' = "Running"
           /\ \A i \in DOMAIN msg.obj.items :
                 LET item == msg.obj.items[i] IN
                 HoldsLeaf(file', msg.dataset_name \o item.key,
                           Encoding(item), EncodedValue(item))
           /\ dataset_write_pos' = dataset_write_pos
      ]_vars

-----------------------------------------------------------------------------
(* C29 *)

\* the kinds the rules are stated for, a nested mapping aside
ListedKinds ==
    {"NoneType", "bool", "str", "list", "int", "int64", "float", "float64",
     "ndarray", "bytes"}

\* the leaf the rules give for a value: the empty-string marker for null,
\* 0 or 1 for a boolean, the UTF-8 bytes for a string, an array with the
\* strings encoded for a list, the value as it is for a numeric scalar, an
\* array or bytes
RuleLeaf(item) ==
    CASE item.kind = "NoneType" -> Leaf("empty-string", "")
      [] item.kind = "bool" -> Leaf("int", IF item.val THEN 1 ELSE 0)
      [] item.kind = "str" -> Leaf("utf8", encode_utf8(item.val))
      [] item.kind = "list" ->
            Leaf("asarray", [i \in DOMAIN item.val |->
                               IF item.val[i].kind = "str"
                               THEN encode_utf8(item.val[i].v)
                               ELSE item.val[i]])
      [] OTHER -> Leaf("as-is", item.val)

\* this step does not process the write of a mapping of one value, or of
\* one nested mapping of one value, of a kind in kinds to a name that is
\* not linked yet, or it does not raise and links the leaf the rules give
\* at the path extended by the key chain
StoredByRule(kinds) ==
    LET msg == Head(frame_queue)
        item == msg.obj.items[1]
        inner == item.items[1]
        name == msg.dataset_name \o item.key
        below == name \o "/" \o inner.key
    IN
    (Processing(msg) /\ msg.type = "write" /\ msg.obj.kind = "dict"
        /\ Len(msg.obj.items) = 1) =>
           /\ (item.kind \in kinds /\ name \notin DOMAIN file) =>
                 /\ server_state' = "Running"
                 /\ name \in DOMAIN file'
                 /\ file'[name] = RuleLeaf(item)
           /\ (item.kind = "dict" /\ inner.kind \in kinds
                  /\ below \notin DOMAIN file) =>
                 /\ server_state' = "Running"
                 /\ below \in DOMAIN file'
                 /\ file'[below] = RuleLeaf(inner)

\* C29 as stated: every value of a listed kind is accepted and encoded by
\* the rule of its kind: null as the empty-string marker, a boolean as 0
\* or 1, a string as its UTF-8 bytes, a list as an array with its strings
\* encoded, an integer or float scalar, an array or bytes as it is, a
\* nested mapping by recursion with the path extended by the key
C29_EncodedByKind == [][StoredByRule(ListedKinds)]_vars

-----------------------------------------------------------------------------
(* C30 *)

\* the kinds of value the isinstance chain has a branch for
BranchKinds == ListedKinds \ {"int"}

\* the kind of the first value, in the order the mapping is walked, that
\* is of none of the kinds, at any depth; "" if there is none
RECURSIVE FirstNotIn(_, _)
FirstNotIn(kinds, items) ==
    IF items = <<>> THEN ""
    ELSE LET it == Head(items)
             here == IF it.kind = "dict" THEN FirstNotIn(kinds, it.items)
                     ELSE IF it.kind \in kinds THEN "" ELSE it.kind
         IN  IF here # "" THEN here ELSE FirstNotIn(kinds, Tail(items))

\* the names of the leaves the walk writes before it comes to the first
\* value the chain has no branch for
RECURSIVE LeavesBefore(_, _)
LeavesBefore(path, items) ==
    IF items = <<>> THEN {}
    ELSE LET it == Head(items) IN
         IF it.kind = "dict"
         THEN LeavesBefore(path \o it.key \o "/", it.items)
                 \cup IF FirstNotIn(BranchKinds, it.items) # "" THEN {}
                      ELSE LeavesBefore(path, Tail(items))
         ELSE IF it.kind \notin BranchKinds THEN {}
              ELSE {path \o it.key} \cup LeavesBefore(path, Tail(items))

CannotSaveError(kind) == "ValueError: Cannot save " \o kind \o " type"

C30_WitnessRefusedLeaf ==
    /\ server_state = "Failed"
    /\ raised[ServerThread] = "ValueError: name already exists"
    /\ FirstNotIn(BranchKinds, delivered[Len(delivered)].obj.items) = "set"

-----------------------------------------------------------------------------
(* C31 *)

\* C31: processing an overwrite whose payload, as the event holds it with
\* at least two dimensions, has the shape of the dataset does not raise;
\* afterwards the rows of the dataset are the rows of the payload, its
\* shape is what it was, nothing else in the file has changed, and the
\* table of write positions is what it was
C31_OverwriteInPlace ==
    [][LET msg == Head(frame_queue)
           name == msg.dataset_name
       IN
       (Processing(msg) /\ IsOverwrite(msg) /\ name \in DOMAIN file
           /\ file[name].shape = msg.obj.shape) =>
              /\ server_state' = "Running"
              /\ DOMAIN file' = DOMAIN file
              /\ file'[name].data = msg.obj.data
              /\ file'[name].shape = file[name].shape
              /\ \A other \in DOMAIN file \ {name} : file'[other] = file[other]
              /\ dataset_write_pos' = dataset_write_pos
      ]_vars

\* an append of a one-dimensional array has put the write position of a
\* dataset at 1, and the overwrite processed after it has replaced the row
\* and left the write position at 1
C31_Witness ==
    /\ server_state = "Running"
    /\ Len(delivered) >= 3
    /\ LET last == delivered[Len(delivered)]
           before == delivered[Len(delivered) - 1]
       IN  /\ IsOverwrite(last)
           /\ IsAppend(before)
           /\ before.dataset_name = last.dataset_name
           /\ file[last.dataset_name].data = last.obj.data
           /\ file[last.dataset_name].data # before.obj.data
           /\ dataset_write_pos[last.dataset_name] = 1

-----------------------------------------------------------------------------
(* C32 *)

\* the payload of event e is the one-dimensional array its producer logged,
\* held as one row of as many cells as the array has elements
IsOneRowOf1D(e) ==
    \E w \in DatasetWidths :
        /\ e.obj.shape = <<1, w>>
        /\ e.obj.data = <<Array1D(e.src, e.seq, w).data>>

\* the payload of event e is the two-dimensional array its producer logged
Is2DAsLogged(e) ==
    \E w \in DatasetWidths : e.obj = Array2D(e.src, e.seq, 2, w)

\* C32: an array payload has at least two dimensions from the moment its
\* event is built: on the queue a one-dimensional array of n elements is
\* one row of width n, a two-dimensional array is as it was logged. An
\* append that is processed without raising advances the write position by
\* 1 for the former, and its n elements are the last row of the dataset; it
\* advances it by the number of rows for the latter
C32_PromotedBeforeProcessing ==
    [][/\ \A i \in DOMAIN sent' :
             IsArrayWrite(sent'[i]) =>
                IsOneRowOf1D(sent'[i]) \/ Is2DAsLogged(sent'[i])
       /\ LET msg == Head(frame_queue)
              name == msg.dataset_name
              old == Cursor(dataset_write_pos, name)
          IN
          (Processing(msg) /\ IsAppend(msg) /\ server_state' = "Running") =>
              IF IsOneRowOf1D(msg)
              THEN /\ dataset_write_pos'[name] = old + 1
                   /\ LastRows(file', name, 1) = msg.obj.data
                   /\ Len(msg.obj.data[1]) = msg.obj.shape[2]
              ELSE dataset_write_pos'[name] = old + msg.obj.shape[1]
      ]_vars

\* two one-dimensional arrays were appended to a dataset one after the
\* other: its write position is 2
C32_Witness ==
    /\ server_state = "Running"
    /\ Len(delivered) >= 3
    /\ LET last == delivered[Len(delivered)]
           before == delivered[Len(delivered) - 1]
       IN  /\ IsAppend(last) /\ IsOneRowOf1D(last)
           /\ IsAppend(before) /\ IsOneRowOf1D(before)
           /\ before.dataset_name = last.dataset_name
           /\ dataset_write_pos[last.dataset_name] = 2
           /\ Rows(file, last.dataset_name) = 2

-----------------------------------------------------------------------------
(* C33 *)

\* C33: when processing a message raises (an array of the wrong shape, no
\* dataset at the path, a leaf or a create the file refuses, a resize or
\* an assignment that fails), the loop ends with that exception in the
\* same step; from then on the server takes nothing from the queue and
\* changes neither the file, the write positions nor the file handle, and
\* it never returns to the loop
C33_FatalEndsLoop ==
    [][/\ LET msg == Head(frame_queue)
              r == Dispatch(msg, file, dataset_write_pos)
          IN  (Processing(msg) /\ ~r.ok) =>
                 /\ server_state' = "Failed"
                 /\ raised'[ServerThread] = r.error
                 /\ r.error # ""
       /\ server_state = "Failed" =>
             /\ server_state' = "Failed"
             /\ IsPrefix(frame_queue, frame_queue')
             /\ UNCHANGED <<file, dataset_write_pos, delivered, storage>>
             /\ raised'[ServerThread] = raised[ServerThread]
      ]_vars

\* main has finished after the loop ended with an error at its second
\* event, and the write event put behind the failing one is still queued
C33_Witness ==
    /\ server_state = "Failed"
    /\ host = "done"
    /\ Len(delivered) = 2
    /\ frame_queue # <<>>
    /\ frame_queue[1].type = "write"
    /\ raised[ServerThread] # ""

-----------------------------------------------------------------------------
(* C34 *)

\* the server has taken the shutdown signal from the queue
GotSignal == \E i \in DOMAIN delivered : delivered[i].type = "None"

\* C34: the shutdown signal is the last message the server takes: once it
\* has taken it, no step takes a message from the queue, whatever
\* producers put there afterwards, and no step changes the contents of the
\* file or the write positions
C34_NothingAfterSignal ==
    [][GotSignal =>
          /\ delivered' = delivered
          /\ delivered[Len(delivered)].type = "None"
          /\ IsPrefix(frame_queue, frame_queue')
          /\ file' = file
          /\ dataset_write_pos' = dataset_write_pos
          /\ server_state' \in {"Finalizing", "Closed"}
      ]_vars

\* the file is closed and main has finished while two write events, put
\* after the signal, are in the queue
C34_Witness ==
    /\ server_state = "Closed"
    /\ host = "done"
    /\ Len(frame_queue) = 2
    /\ \A i \in DOMAIN frame_queue : frame_queue[i].type = "write"
    /\ Len(delivered) = 2

-----------------------------------------------------------------------------
(* C35 *)

\* C35: the file is closed only in the step that follows the shutdown
\* signal: a step that closes it starts where the loop has ended on the
\* signal and nothing has raised. When processing an event raises, the
\* loop ends with the file open; it is never flushed or closed afterwards,
\* and the server is never Closed
C35_FinalizeOnlyAfterSignal ==
    [][/\ storage'.closes # storage.closes =>
             /\ server_state = "Finalizing"
             /\ delivered[Len(delivered)].type = "None"
             /\ raised[ServerThread] = ""
             /\ server_state' = "Closed"
       /\ raised'[ServerThread] # "" =>
             /\ server_state' = "Failed"
             /\ storage'.open
             /\ storage'.closes = 0
             /\ raised[ServerThread] # "" => storage' = storage
      ]_vars

\* main has finished after the loop ended with an error at the second
\* event: the file is open, never closed, and holds what the first event
\* wrote
C35_Witness ==
    /\ server_state = "Failed"
    /\ host = "done"
    /\ Len(delivered) = 2
    /\ storage.open
    /\ storage.closes = 0
    /\ file # Empty

-----------------------------------------------------------------------------
(* C36 *)

\* C36: processing an array write to a path, append or not, raising or
\* not, links and unlinks nothing, leaves every dataset at another path
\* with the shape and the rows it had, and leaves the write position of
\* every other path as it was, adding none for another path
C36_OtherPathsUnchanged ==
    [][LET msg == Head(frame_queue)
           name == msg.dataset_name
       IN
       (Processing(msg) /\ IsArrayWrite(msg)) =>
           /\ DOMAIN file' = DOMAIN file
           /\ \A other \in DOMAIN file \ {name} : file'[other] = file[other]
           /\ DOMAIN dataset_write_pos' \subseteq DOMAIN dataset_write_pos \cup {name}
           /\ \A other \in DOMAIN dataset_write_pos \ {name} :
                 /\ other \in DOMAIN dataset_write_pos'
                 /\ dataset_write_pos'[other] = dataset_write_pos[other]
      ]_vars

\* two datasets were created with the same shape and an array was written
\* to one of them: the other one still has the rows it was created with
C36_Witness ==
    /\ server_state = "Running"
    /\ Len(delivered) = 3
    /\ delivered[1].type = "create"
    /\ delivered[2].type = "create"
    /\ delivered[1].dataset_name # delivered[2].dataset_name
    /\ delivered[1].shape = delivered[2].shape
    /\ IsArrayWrite(delivered[3])
    /\ \E other \in DOMAIN file \ {delivered[3].dataset_name} :
          /\ file[other] = NewDataset(delivered[1].shape, "unlimited")
          /\ file[delivered[3].dataset_name].data # file[other].data

-----------------------------------------------------------------------------
(* C37 *)

\* the names of all the leaves of a mapping written under path
RECURSIVE LeafNames(_, _)
LeafNames(path, items) ==
    IF items = <<>> THEN {}
    ELSE LET it == Head(items) IN
         (IF it.kind = "dict" THEN LeafNames(path \o it.key \o "/", it.items)
          ELSE {path \o it.key})
             \cup LeafNames(path, Tail(items))

\* C37: when the write of a mapping, none of whose leaves is linked yet,
\* comes to a value the encoder has no branch for, the loop ends with an
\* error and the file keeps what the walk has written: every leaf that
\* precedes the value in the order of the walk, those of nested mappings
\* walked before included, is linked, and neither the value itself nor
\* any leaf behind it is
C37_MappingWriteNotAtomic ==
    [][LET msg == Head(frame_queue)
           before == LeavesBefore(msg.dataset_name, msg.obj.items)
           all == LeafNames(msg.dataset_name, msg.obj.items)
       IN
       (Processing(msg) /\ msg.type = "write" /\ msg.obj.kind = "dict"
           /\ FirstNotIn(BranchKinds, msg.obj.items) # ""
           /\ all \cap DOMAIN file = {}) =>
              /\ server_state' = "Failed"
              /\ \A n \in before :
                    /\ n \in DOMAIN file'
                    /\ "stored" \in DOMAIN file'[n]
                    /\ file'[n].stored # "group"
              /\ \A n \in all \ before : n \notin DOMAIN file'
              /\ \A n \in DOMAIN file : n \in DOMAIN file' /\ file'[n] = file[n]
      ]_vars

\* the loop has ended at a mapping with a tuple behind a nested mapping and
\* before a string: the leaf of the nested mapping is in the file, the
\* string behind the tuple is not
C37_Witness ==
    /\ server_state = "Failed"
    /\ delivered # <<>>
    /\ LET last == delivered[Len(delivered)] IN
          /\ last.type = "write" /\ last.obj.kind = "dict"
          /\ Len(last.obj.items) = 3
          /\ last.obj.items[1].kind = "dict"
          /\ (last.dataset_name \o "b/" \o last.obj.items[1].items[1].key)
                \in DOMAIN file
          /\ (last.dataset_name \o last.obj.items[3].key) \notin DOMAIN file

-----------------------------------------------------------------------------
(* IOTask: the sample callback and set_data_generator *)

MaxCallbacks == 3
MaxGenerators == 2

\* the task is the producer whose events carry this number
IOTaskSrc == 1

RECURSIVE PickleAll(_)
PickleAll(msgs) ==
    IF msgs = <<>> THEN <<>> ELSE <<Pickle(Head(msgs))>> \o PickleAll(Tail(msgs))

\* calls of the proxy made one after the other by one caller
EnqueueAll(msgs) ==
    /\ QueueHasRoom(frame_queue)
    /\ frame_queue' = frame_queue \o PickleAll(msgs)
    /\ sent' = sent \o msgs

\* np.array([FICTRAC_FRAME_NUM, DAQ_OUTPUT_NUM_SAMPLES_WRITTEN])
SynchronizationInfo(task) ==
    [kind |-> "ndarray", shape |-> <<2>>, data |-> <<0, task.samples_written>>]

\* the calls of the proxy in the constructor of an analog task: it creates
\* the datasets for its log messages, and an output task fills the buffer
\* of the hardware with one call of EveryNCallback
TaskDatasets(cha_type) ==
    IF cha_type = "output"
    THEN <<DatasetCreateEvent("/fictrac/daq_synchronization_info",
                              <<1024, 2>>, "unlimited", IOTaskSrc, 1),
           DatasetWriteEvent("/fictrac/daq_synchronization_info",
                             SynchronizationInfo(NoTask), TRUE, IOTaskSrc, 2)>>
    ELSE <<DatasetCreateEvent("/input/samples", <<512, 1>>, "unlimited",
                              IOTaskSrc, 1),
           DatasetCreateEvent("/input/systemtime", <<1024, 1>>, "unlimited",
                              IOTaskSrc, 2)>>

\* IOTask.__init__ of an analog task with has_callback: the datasets are
\* created, the data is zeros, no generator is set, the lock is free; an
\* output task has written the zeros to the hardware
IOTaskConstruct(cha_type) ==
    /\ io_task.cha_type = ""
    /\ io_task' =
          IF cha_type = "output"
          THEN [io_task EXCEPT
                  !.cha_type = cha_type,
                  !.written = <<[data |-> io_task.data, data_gen |-> 0]>>,
                  !.samples_written = io_task.data.shape[1]]
          ELSE [io_task EXCEPT !.cha_type = cha_type]
    /\ EnqueueAll(TaskDatasets(cha_type))
    /\ UNCHANGED <<server_state, file, dataset_write_pos, alive, host,
                   delivered, storage, buffer, raised, fictrac, playlist>>

\* threading.Lock: acquire waits while the lock is held
LockIsFree(task) == task.data_lock = ""

\* EveryNCallback enters "with self._data_lock"
CallbackEnter ==
    /\ io_task.cha_type # ""
    /\ io_task.callback = "idle"
    /\ io_task.callbacks < MaxCallbacks
    /\ LockIsFree(io_task)
    /\ io_task' = [io_task EXCEPT !.data_lock = "callback", !.callback = "next"]
    /\ UNCHANGED <<frame_queue, server_state, file, dataset_write_pos, alive,
                   host, sent, delivered, storage, buffer, raised, fictrac,
                   playlist>>

\* next(g) of the generator chunker has returned: its next chunk
Yielded(task, g) == IF g \in DOMAIN task.yielded THEN task.yielded[g] ELSE 0

\* if self.data_gen is not None: self._sample_chunk = next(self.data_gen);
\* self._data = self._sample_chunk.data
CallbackNext ==
    /\ io_task.callback = "next"
    /\ LET g == io_task.data_gen
           c == SampleChunk(g, Yielded(io_task, g) + 1)
       IN  io_task' =
             IF g # 0
             THEN [io_task EXCEPT !.sample_chunk = c, !.data = c.data,
                                  !.yielded = Put(io_task.yielded, g,
                                                  Yielded(io_task, g) + 1),
                                  !.callback = "io"]
             ELSE [io_task EXCEPT !.callback = "io"]
    /\ UNCHANGED <<frame_queue, server_state, file, dataset_write_pos, alive,
                   host, sent, delivered, storage, buffer, raised, fictrac,
                   playlist>>

\* an input task reads the samples of the hardware into self._data
CallbackRead ==
    /\ io_task.callback = "io"
    /\ io_task.cha_type = "input"
    /\ io_task' = [io_task EXCEPT !.data = Samples(io_task.data, io_task.reads + 1),
                                  !.reads = io_task.reads + 1,
                                  !.callback = "log"]
    /\ UNCHANGED <<frame_queue, server_state, file, dataset_write_pos, alive,
                   host, sent, delivered, storage, buffer, raised, fictrac,
                   playlist>>

\* an output task logs the number of samples written so far, then writes
\* self._data to the hardware
CallbackWrite ==
    /\ io_task.callback = "io"
    /\ io_task.cha_type = "output"
    /\ Enqueue(DatasetWriteEvent("/fictrac/daq_synchronization_info",
                                 SynchronizationInfo(io_task), TRUE,
                                 IOTaskSrc, NextSeq(IOTaskSrc)))
    /\ io_task' = [io_task EXCEPT
            !.written = Append(io_task.written,
                               [data |-> io_task.data, data_gen |-> io_task.data_gen]),
            !.samples_written = io_task.samples_written + io_task.data.shape[1],
            !.callback = "exit"]
    /\ UNCHANGED <<server_state, file, dataset_write_pos, alive, host,
                   delivered, storage, buffer, raised, fictrac, playlist>>

\* an input task logs the samples and the time of the callback
CallbackLog ==
    /\ io_task.callback = "log"
    /\ LET k == NextSeq(IOTaskSrc) IN
          EnqueueAll(<<DatasetWriteEvent("/input/samples", io_task.data, TRUE,
                                         IOTaskSrc, k),
                       DatasetWriteEvent("/input/systemtime",
                                         Array1D(IOTaskSrc, k + 1, 1), TRUE,
                                         IOTaskSrc, k + 1)>>)
    /\ io_task' = [io_task EXCEPT !.callback = "exit"]
    /\ UNCHANGED <<server_state, file, dataset_write_pos, alive, host,
                   delivered, storage, buffer, raised, fictrac, playlist>>

\* the with block of EveryNCallback ends: the lock is released
CallbackExit ==
    /\ io_task.callback = "exit"
    /\ io_task' = [io_task EXCEPT !.data_lock = "", !.callback = "idle",
                                  !.callbacks = io_task.callbacks + 1]
    /\ UNCHANGED <<frame_queue, server_state, file, dataset_write_pos, alive,
                   host, sent, delivered, storage, buffer, raised, fictrac,
                   playlist>>

\* mutant: set_data_generator does not take the lock
SetDataGeneratorEnter_Unlocked ==
    /\ io_task.cha_type # ""
    /\ io_task.setter = "idle"
    /\ io_task.chunked_gen < MaxGenerators
    /\ io_task' = [io_task EXCEPT !.setter = "chunker"]
    /\ UNCHANGED <<frame_queue, server_state, file, dataset_write_pos, alive,
                   host, sent, delivered, storage, buffer, raised, fictrac,
                   playlist>>

\* set_data_generator enters "with self._data_lock"
SetDataGeneratorEnter ==
    /\ io_task.cha_type # ""
    /\ io_task.setter = "idle"
    /\ io_task.chunked_gen < MaxGenerators
    /\ LockIsFree(io_task)
    /\ io_task' = [io_task EXCEPT !.data_lock = "setter", !.setter = "chunker"]
    /\ UNCHANGED <<frame_queue, server_state, file, dataset_write_pos, alive,
                   host, sent, delivered, storage, buffer, raised, fictrac,
                   playlist>>

\* chunked_gen = chunker(data_generator, chunk_size=...): a new generator,
\* that yields the chunks of the one it is given
SetDataGeneratorChunker ==
    /\ io_task.setter = "chunker"
    /\ io_task' = [io_task EXCEPT !.chunked_gen = io_task.chunked_gen + 1,
                                  !.setter = "assign"]
    /\ UNCHANGED <<frame_queue, server_state, file, dataset_write_pos, alive,
                   host, sent, delivered, storage, buffer, raised, fictrac,
                   playlist>>

\* self.data_gen = chunked_gen, and the with block ends: the lock is
\* released if this caller holds it
SetDataGeneratorAssign ==
    /\ io_task.setter = "assign"
    /\ io_task' = [io_task EXCEPT
            !.data_gen = io_task.chunked_gen,
            !.data_lock = IF io_task.data_lock = "setter" THEN ""
                          ELSE io_task.data_lock,
            !.setter = "idle"]
    /\ UNCHANGED <<frame_queue, server_state, file, dataset_write_pos, alive,
                   host, sent, delivered, storage, buffer, raised, fictrac,
                   playlist>>

NextIOTask ==
    \/ \E t \in {"input", "output"} : IOTaskConstruct(t)
    \/ CallbackEnter
    \/ CallbackNext
    \/ CallbackRead
    \/ CallbackWrite
    \/ CallbackLog
    \/ CallbackExit
    \/ SetDataGeneratorEnter
    \/ SetDataGeneratorChunker
    \/ SetDataGeneratorAssign

SpecIOTask == Init /\ [][NextIOTask]_vars

\* the callback is between the next() call and the end of its with block
AfterNext == io_task.callback \in {"io", "log", "exit"}

(* C38 *)

\* C38: set_data_generator and one execution of EveryNCallback exclude each
\* other: no caller is inside set_data_generator while a callback executes,
\* and from its next() call on a callback that has taken a chunk holds the
\* chunk of the generator that is set, which is the one whose data an
\* output task has written to the hardware
C38_CallbackUsesOneGenerator ==
    /\ ~(io_task.callback # "idle" /\ io_task.setter # "idle")
    /\ (AfterNext /\ io_task.data_gen # 0) =>
          io_task.sample_chunk.producer_id = io_task.data_gen
    /\ \A i \in DOMAIN io_task.written :
          io_task.written[i].data_gen # 0 =>
             \E n \in 1..MaxCallbacks :
                io_task.written[i].data =
                   SampleChunk(io_task.written[i].data_gen, n).data

\* a callback executes with the second generator, set after a callback
\* that has used the first
C38_Witness ==
    /\ io_task.callback = "exit"
    /\ io_task.callbacks >= 1
    /\ io_task.data_gen = 2
    /\ io_task.sample_chunk.producer_id = 2
    /\ 1 \in DOMAIN io_task.yielded

-----------------------------------------------------------------------------
(* FicTracV2Driver.run: the polling loop *)

MaxFrames == 3
MaxPolls == 3

\* the driver is the producer whose events carry this number
FicTracSrc == 1

\* by how much FicTrac advances the frame counter between two polls it
\* is seen at: by one, or by more when the driver has missed a frame
FrameSteps == {1, 2}

\* the FicTrac process writes a new frame to the shared memory region
FicTracFrame(d) ==
    /\ fictrac.process = "running"
    /\ fictrac.frame_cnt + d <= MaxFrames
    /\ fictrac' = [fictrac EXCEPT !.frame_cnt = fictrac.frame_cnt + d]
    /\ UNCHANGED <<frame_queue, server_state, file, dataset_write_pos, alive,
                   host, sent, delivered, storage, buffer, raised, io_task,
                   playlist>>

\* the FicTrac process ends
FicTracExit ==
    /\ fictrac.process = "running"
    /\ fictrac.state = "polling"
    /\ fictrac' = [fictrac EXCEPT !.process = "exited"]
    /\ UNCHANGED <<frame_queue, server_state, file, dataset_write_pos, alive,
                   host, sent, delivered, storage, buffer, raised, io_task,
                   playlist>>

\* another part of the program asks every backend to stop
SharedStateStop ==
    /\ fictrac.state = "polling"
    /\ ~fictrac.is_stopped
    /\ fictrac' = [fictrac EXCEPT !.is_stopped = TRUE]
    /\ UNCHANGED <<frame_queue, server_state, file, dataset_write_pos, alive,
                   host, sent, delivered, storage, buffer, raised, io_task,
                   playlist>>

\* run, with options: the shared memory is mapped and the frame counter
\* read, before the loop
FicTracRunStart ==
    /\ fictrac.state = "init"
    /\ fictrac' = [fictrac EXCEPT
            !.state = "polling",
            !.first_frame_count = fictrac.frame_cnt,
            !.old_frame_count = fictrac.frame_cnt,
            !.observed = <<fictrac.frame_cnt>>]
    /\ UNCHANGED <<frame_queue, server_state, file, dataset_write_pos, alive,
                   host, sent, delivered, storage, buffer, raised, io_task,
                   playlist>>

\* the while condition of the loop: FicTrac runs and no stop was seen
LoopContinues(d) == d.process = "running" /\ d.running

\* fictrac_state_to_vec(data_copy): the fields of the copied state, the
\* frame counter among them
fictrac_state_to_vec(frame_cnt) ==
    [kind |-> "ndarray", shape |-> <<1>>, data |-> <<frame_cnt>>]

\* mutant: every poll is taken for a new frame
FrameChanged_Always(old_frame_count, new_frame_count) == TRUE

\* if old_frame_count != new_frame_count
FrameChanged(old_frame_count, new_frame_count) ==
    old_frame_count # new_frame_count

\* one iteration of the loop in which the state is copied: the counter of
\* the copy is compared with the one of the last frame handled; a new frame
\* is logged; then the stop flag of the shared state is looked at
FicTracPoll ==
    /\ fictrac.state = "polling"
    /\ LoopContinues(fictrac)
    /\ Len(fictrac.observed) <= MaxPolls
    /\ LET new_frame_count == fictrac.frame_cnt
           changed == FrameChanged(fictrac.old_frame_count, new_frame_count)
       IN  /\ fictrac' = [fictrac EXCEPT
                 !.new_frame_count = new_frame_count,
                 !.observed = Append(fictrac.observed, new_frame_count),
                 !.ready = fictrac.ready \/
                    (changed /\ fictrac.old_frame_count = fictrac.first_frame_count),
                 !.old_frame_count = IF changed THEN new_frame_count
                                     ELSE fictrac.old_frame_count,
                 !.running = ~fictrac.is_stopped]
           /\ IF changed
              THEN Enqueue(DatasetWriteEvent("/fictrac/output",
                              fictrac_state_to_vec(new_frame_count), TRUE,
                              FicTracSrc, NextSeq(FicTracSrc)))
              ELSE UNCHANGED <<frame_queue, sent>>
    /\ UNCHANGED <<server_state, file, dataset_write_pos, alive, host,
                   delivered, storage, buffer, raised, io_task, playlist>>

\* the semaphore of FicTrac is gone when the loop asks for it: break
FicTracPollBreak ==
    /\ fictrac.state = "polling"
    /\ LoopContinues(fictrac)
    /\ fictrac.process = "running"
    /\ fictrac' = [fictrac EXCEPT !.state = "done"]
    /\ UNCHANGED <<frame_queue, server_state, file, dataset_write_pos, alive,
                   host, sent, delivered, storage, buffer, raised, io_task,
                   playlist>>

\* the while condition is false: the loop ends
FicTracLoopEnd ==
    /\ fictrac.state = "polling"
    /\ ~LoopContinues(fictrac)
    /\ fictrac' = [fictrac EXCEPT !.state = "done"]
    /\ UNCHANGED <<frame_queue, server_state, file, dataset_write_pos, alive,
                   host, sent, delivered, storage, buffer, raised, io_task,
                   playlist>>

NextFicTrac ==
    \/ \E d \in FrameSteps : FicTracFrame(d)
    \/ FicTracExit
    \/ SharedStateStop
    \/ FicTracRunStart
    \/ FicTracPoll
    \/ FicTracPollBreak
    \/ FicTracLoopEnd

SpecFicTrac == Init /\ [][NextFicTrac]_vars

\* the frame counters of the records logged to '/fictrac/output'
LoggedFrames ==
    [i \in DOMAIN sent |-> sent[i].obj.data[1][1]]

\* the counters seen by the polls that saw another counter than the
\* observation before them, in the order of the polls
RECURSIVE NewFrames(_)
NewFrames(observed) ==
    IF Len(observed) < 2 THEN <<>>
    ELSE LET n == Len(observed)
             before == NewFrames(SubSeq(observed, 1, n - 1))
         IN  IF observed[n] # observed[n - 1]
             THEN Append(before, observed[n]) ELSE before

(* C39 *)

-----------------------------------------------------------------------------
(* AudioStimPlaylist.data_generator *)

MaxOrder == 2
MaxSteps == 4

\* the identifiers of the stimuli of the playlist
StimIds == {"a", "b"}

\* the orders in which the Randomizer of a playlist plays its items
RECURSIVE OrdersOf(_)
OrdersOf(n) ==
    IF n = 0 THEN {<<>>}
    ELSE LET shorter == OrdersOf(n - 1) IN
         shorter \cup {Append(o, id) : o \in {s \in shorter : Len(s) = n - 1},
                                       id \in StimIds}

\* AudioStimPlaylist(stims, random, paused), and data_generator() called
\* on it: the generator has not run yet
PlaylistNew(order, paused) ==
    /\ playlist.state = "init"
    /\ playlist' = [playlist EXCEPT !.state = "generator", !.order = order,
                                    !.paused = paused]
    /\ UNCHANGED <<frame_queue, server_state, file, dataset_write_pos, alive,
                   host, sent, delivered, storage, buffer, raised, io_task,
                   fictrac>>

\* play_pause(pause)
PlayPause(pause) ==
    /\ playlist.state = "generator"
    /\ playlist.paused # pause
    /\ playlist' = [playlist EXCEPT !.paused = pause]
    /\ UNCHANGED <<frame_queue, server_state, file, dataset_write_pos, alive,
                   host, sent, delivered, storage, buffer, raised, io_task,
                   fictrac>>

\* next(playlist_iter) of the iterator of the Randomizer that has given
\* taken items: the next item of the order, or StopIteration
iter_items_next(order, taken) ==
    IF taken < Len(order) THEN order[taken + 1] ELSE "StopIteration"

\* mutant: StopIteration is not caught
next_id_Uncaught(order, taken) == iter_items_next(order, taken)

\* try: next_id = next(playlist_iter); except StopIteration: next_id = None
next_id(order, taken) ==
    IF iter_items_next(order, taken) = "StopIteration" THEN "None"
    ELSE iter_items_next(order, taken)

\* the chunks that the generator of stimulus id has yielded
ChunksOf(pl, id) == IF id \in DOMAIN pl.chunks THEN pl.chunks[id] ELSE 0

\* next(data_gens[id]): AudioStim.data_generator yields the data of the
\* stimulus over and over
StimChunk(id, n) == [kind |-> "chunk", producer_id |-> id, n |-> n]

\* one next() of the generator of data_generator: the body runs to its
\* next yield; an exception that leaves the body ends the generator
GeneratorNext ==
    /\ playlist.state = "generator"
    /\ playlist.steps < MaxSteps
    /\ LET id == next_id(playlist.order, playlist.taken) IN
       playlist' =
          IF playlist.paused
          THEN [playlist EXCEPT !.yielded = NoneChunk,
                                !.steps = playlist.steps + 1]
          ELSE IF id = "StopIteration"
          THEN [playlist EXCEPT !.state = "RuntimeError",
                                !.steps = playlist.steps + 1]
          ELSE IF id = "None"
          THEN [playlist EXCEPT !.yielded = NoneChunk,
                                !.steps = playlist.steps + 1]
          ELSE [playlist EXCEPT
                  !.taken = playlist.taken + 1,
                  !.chunks = Put(playlist.chunks, id, ChunksOf(playlist, id) + 1),
                  !.yielded = StimChunk(id, ChunksOf(playlist, id) + 1),
                  !.steps = playlist.steps + 1]
    /\ UNCHANGED <<frame_queue, server_state, file, dataset_write_pos, alive,
                   host, sent, delivered, storage, buffer, raised, io_task,
                   fictrac>>

NextPlaylist ==
    \/ \E order \in OrdersOf(MaxOrder) : \E paused \in BOOLEAN :
          PlaylistNew(order, paused)
    \/ \E pause \in BOOLEAN : PlayPause(pause)
    \/ GeneratorNext

SpecPlaylist == Init /\ [][NextPlaylist]_vars

\* a step of the generator is taken
Stepped == playlist'.steps = playlist.steps + 1

\* how often id is among the first n items of the order
RECURSIVE TimesIn(_, _, _)
TimesIn(order, n, id) ==
    IF n = 0 THEN 0
    ELSE TimesIn(order, n - 1, id) + (IF order[n] = id THEN 1 ELSE 0)

\* the step yields None and takes no item of the order
YieldsNone ==
    /\ playlist'.yielded = NoneChunk
    /\ playlist'.taken = playlist.taken

\* the step takes one item of the order and yields the next chunk of the
\* stimulus it names
YieldsNextItem ==
    /\ playlist'.taken = playlist.taken + 1
    /\ LET id == playlist.order[playlist'.taken] IN
          playlist'.yielded =
             StimChunk(id, TimesIn(playlist.order, playlist'.taken, id))

(* C40 *)

\* C40: every step of the generator ends at a yield, none ends the
\* generator; a step while paused yields None and takes no item of the
\* order; a step while not paused takes one item and yields the next chunk
\* of its stimulus, and yields None once every item is taken
C40_GeneratorStep ==
    [][Stepped =>
          /\ playlist'.state = "generator"
          /\ IF playlist.paused \/ playlist.taken = Len(playlist.order)
             THEN YieldsNone
             ELSE YieldsNextItem]_vars

\* the order is finished and a further step has yielded None, after a
\* step that has played the same stimulus a second time
C40_Witness ==
    /\ playlist.state = "generator"
    /\ playlist.steps = 3
    /\ playlist.taken = Len(playlist.order)
    /\ playlist.order = <<"a", "a">>
    /\ ~playlist.paused
    /\ playlist.yielded = NoneChunk

====
